---- MODULE Spec2Model ----
(***************************************************************************)
(* A model of the Elestio command-line client: the authenticated gateway   *)
(* client (lib/api.js) and the CI/CD automatic pipeline creation           *)
(* (findGitAuthID, findRepo, autoCreatePipeline of the cicd library).      *)
(*                                                                         *)
(* JavaScript strings that the code inspects (split, toLowerCase,          *)
(* includes) are sequences of one-character strings, so that these         *)
(* conversions are computed and not assumed.                               *)
(***************************************************************************)
EXTENDS Integers, Sequences, FiniteSets, TLC

VARIABLES
  config,     \* content of config.json: [jwt, jwtExpiry]
  creds,      \* credentials read from .env: [email, apiToken]
  now,        \* Date.now(), in milliseconds
  apiRes,     \* record of the last apiRequest call of the client
  repoPc,     \* findRepo: where the call stands
  ownerRepo,  \* findRepo: the "owner/repo" argument
  repoReqs,   \* findRepo: requests for the repository list issued
  repoRes,    \* findRepo: the repository returned or the error raised
  authPc,     \* findGitAuthID: where the call stands
  gitType,    \* findGitAuthID: the provider kind asked for
  nSvcs,      \* findGitAuthID: length of cicdServices
  svcIdx,     \* findGitAuthID: the service the outer loop is at
  pipelines,  \* findGitAuthID: the pipelines listed for that service
  pipIdx,     \* findGitAuthID: the pipeline the inner loop is at
  caught,     \* findGitAuthID: the inner catch has ended the inner loop
  authRes,    \* findGitAuthID: [returned, id], id 0 for null
  listed,     \* the pipelines listed so far that have the kind asked for
              \* and whose details answer with an authorization id
  autoPc,     \* autoCreatePipeline: where the call stands
  options,    \* autoCreatePipeline: the options of the call
  defaultProject, \* config.defaultProject
  reqLog,     \* the endpoints autoCreatePipeline and the helpers it awaits
              \* have called apiRequest for; of findGitAuthID the first
  target,     \* autoCreatePipeline: what getCicdTargetInfo returned
  authID,     \* autoCreatePipeline: its authID
  found,      \* autoCreatePipeline: what findGitAuthID returned
  repoData,   \* autoCreatePipeline: the repository findRepo returned
  payload,    \* autoCreatePipeline: the payload built
  postDeploy, \* autoCreatePipeline: how postDeployFix ended
  events,     \* what was logged and done from the creation response on
  retries,    \* postDeployFix: retries of its wait loop
  lastProbe,  \* postDeployFix: what the last probe of the wait loop gave
  autoRes,    \* autoCreatePipeline: what it returned or raised
  sshPc,      \* ensureSSHAccess: where the call stands
  keyFiles,   \* ~/.ssh: the key in id_ed25519 and in id_ed25519.pub (0: no file)
  sshLog,     \* ensureSSHAccess: what its calls have done, in order
  sshVm,      \* ensureSSHAccess: the vmID of the call under way
  resizePc,   \* resizeServer: where the call stands
  resizeIn,   \* resizeServer: its arguments and the service it finds
  resizeReqs, \* resizeServer: the actions sent to the API
  resizeRes,  \* resizeServer: how it ended
  delCall,    \* the delete operation called and its arguments
  delReqs,    \* the requests the delete operation has sent
  delRes,     \* how the delete operation ended
  configFile, \* config.json: its top-level fields
  envFile,    \* .env: the credentials
  cfgWrites,  \* what saveConfig wrote during the last operation, in order
  cfgLoads,   \* what loadConfig returned during the last operation
  fwPc,       \* firewall: where the call stands
  fwIn,       \* firewall: the operation and the rules given
  fwSeen,     \* firewall: what each lookup of the existing rules gave
  fwReqs,     \* firewall: the actions sent after the lookups
  fwRes,      \* firewall: how the call ended
  waitPc,     \* waitForDeployment: where the call stands
  waitIn,     \* waitForDeployment: vmID and timeoutMs
  elapsed,    \* waitForDeployment: Date.now() - start
  polls,      \* waitForDeployment: what each poll observed
  waitRes     \* waitForDeployment: what it returned or raised

apiVars == <<config, creds, now, apiRes>>

repoVars == <<repoPc, ownerRepo, repoReqs, repoRes>>

authVars ==
  <<authPc, gitType, nSvcs, svcIdx, pipelines, pipIdx, caught, authRes, listed>>

deployVars == <<postDeploy, events, retries, lastProbe>>

autoVars ==
  <<autoPc, options, defaultProject, reqLog, target, authID, found, repoData,
    payload, autoRes, deployVars>>

sshVars == <<sshPc, keyFiles, sshLog, sshVm>>

resizeVars == <<resizePc, resizeIn, resizeReqs, resizeRes>>

delVars == <<delCall, delReqs, delRes>>

cfgVars == <<configFile, envFile, cfgWrites, cfgLoads>>

fwVars == <<fwPc, fwIn, fwSeen, fwReqs, fwRes>>

waitVars == <<waitPc, waitIn, elapsed, polls, waitRes>>

libVars == <<sshVars, resizeVars, delVars, cfgVars, fwVars, waitVars>>

vars == <<apiVars, repoVars, authVars, autoVars, libVars>>

Null == "null"

\* ------------------------------------------------------------------------
\* Bounds of the model
\* ------------------------------------------------------------------------

\* how many times the clock advances by TickMs
MaxTicks == 2

\* the longest "owner/repo" argument, in characters
MaxRepoLen == 4

\* the longest repository list the remote API answers with
MaxRepos == 2

\* the most CI/CD targets of a project
MaxTargets == 2

\* the most pipelines of a CI/CD target
MaxPipelines == 2

\* ------------------------------------------------------------------------
\* JavaScript string helpers
\* ------------------------------------------------------------------------

UpperChars == <<"A","B","C","D","E","F","G","H","I","J","K","L","M",
                "N","O","P","Q","R","S","T","U","V","W","X","Y","Z">>

LowerChars == <<"a","b","c","d","e","f","g","h","i","j","k","l","m",
                "n","o","p","q","r","s","t","u","v","w","x","y","z">>

\* one character of String.prototype.toLowerCase
LowerChar(c) ==
  IF \E i \in 1..Len(UpperChars) : UpperChars[i] = c
  THEN LowerChars[CHOOSE i \in 1..Len(UpperChars) : UpperChars[i] = c]
  ELSE c

\* String.prototype.toLowerCase
toLowerCase(s) == [i \in 1..Len(s) |-> LowerChar(s[i])]

\* String.prototype.includes
includes(s, sub) ==
  \E i \in 1..(Len(s) - Len(sub) + 1) : SubSeq(s, i, i + Len(sub) - 1) = sub

\* String.prototype.split with a one-character separator: the segments
\* between the separators, an empty string giving one empty segment
RECURSIVE split(_, _)
split(s, sep) ==
  IF \A i \in 1..Len(s) : s[i] # sep
  THEN <<s>>
  ELSE LET k == CHOOSE i \in 1..Len(s) :
                  s[i] = sep /\ \A j \in 1..(i - 1) : s[j] # sep
       IN <<SubSeq(s, 1, k - 1)>> \o split(SubSeq(s, k + 1, Len(s)), sep)

\* Array.prototype.join
RECURSIVE join(_, _)
join(segs, sep) ==
  IF Len(segs) = 0 THEN <<>>
  ELSE IF Len(segs) = 1 THEN segs[1]
  ELSE segs[1] \o sep \o join(Tail(segs), sep)

\* ------------------------------------------------------------------------
\* lib/api.js: configuration, JWT cache, authenticated request
\* ------------------------------------------------------------------------

\* the five-minute buffer of isJwtExpired, in milliseconds
ExpiryBufferMs == 300000

\* the lifetime given to a fresh JWT, 23 hours in milliseconds
JwtLifetimeMs == 23 * 60 * 60 * 1000

\* the step of the model's clock, 12 hours in milliseconds
TickMs == 12 * 60 * 60 * 1000

\* DEFAULT_CONFIG: jwt null, jwtExpiry null (0 stands for the falsy null)
DEFAULT_CONFIG == [jwt |-> Null, jwtExpiry |-> 0]

\* the JWTs the authentication endpoint hands out
Jwts == {"jwtA", "jwtB"}

\* messages of the remote API, as character sequences
MsgNone == <<>>
MsgNotFound == <<"N","o","t"," ","f","o","u","n","d">>
MsgAuthFailed == <<"A","u","t","h"," ","f","a","i","l","e","d">>
MsgAuthUpper == <<"A","U","T","H"," ","R","E","Q","U","I","R","E","D">>
MsgUnauthorized == <<"U","n","a","u","t","h","o","r","i","z","e","d">>
MsgInvalidToken == <<"I","n","v","a","l","i","d"," ","T","o","k","e","n">>

StrAuth == <<"a","u","t","h">>
StrInvalidToken == <<"i","n","v","a","l","i","d"," ","t","o","k","e","n">>

\* parsed JSON bodies of the API, by the three fields apiRequest reads
Bodies ==
  { [status |-> "OK",    code |-> Null,           message |-> MsgNone],
    [status |-> "error", code |-> Null,           message |-> MsgNotFound],
    [status |-> "error", code |-> Null,           message |-> MsgAuthFailed],
    [status |-> "error", code |-> Null,           message |-> MsgAuthUpper],
    [status |-> "KO",    code |-> Null,           message |-> MsgUnauthorized],
    [status |-> "KO",    code |-> "InvalidToken", message |-> MsgNone],
    [status |-> "KO",    code |-> Null,           message |-> MsgInvalidToken] }

NoBody == [status |-> Null, code |-> Null, message |-> MsgNone]

\* what fetch gives for a request to an endpoint: a network failure (fetch
\* rejects), or an HTTP status with a body that parses as JSON or does not
Responses ==
  { [net |-> FALSE, status |-> 0, json |-> FALSE, body |-> NoBody] }
  \cup [net : {TRUE}, status : {200, 401}, json : {TRUE}, body : Bodies]
  \cup [net : {TRUE}, status : {200, 401}, json : {FALSE}, body : {NoBody}]

\* what the checkAPIToken endpoint answers to authenticate
AuthResponses ==
  { [net |-> FALSE, status |-> Null, jwt |-> Null] }
  \cup [net : {TRUE}, status : {"OK"}, jwt : Jwts \cup {Null}]
  \cup [net : {TRUE}, status : {"KO"}, jwt : {Null}]

\* the server's answers to one attempt of apiRequest: the answer to
\* authenticate (read only if getJwt refreshes) and the endpoint's answer
Attempts == [auth : AuthResponses, resp : Responses]

\* isJwtExpired
isJwtExpired(cfg, t) ==
  IF cfg.jwt = Null \/ cfg.jwtExpiry = 0 THEN TRUE
  ELSE t > cfg.jwtExpiry - ExpiryBufferMs

\* authenticate: raises on a network failure or when the answer has no
\* status OK with a jwt
authenticate(authResp, t) ==
  IF ~authResp.net \/ authResp.status # "OK" \/ authResp.jwt = Null
  THEN [raised |-> TRUE, jwt |-> Null, jwtExpiry |-> 0]
  ELSE [raised |-> FALSE, jwt |-> authResp.jwt, jwtExpiry |-> t + JwtLifetimeMs]

\* getJwt: the JWT to use, the configuration saved, and what was done
getJwt(cfg, cr, t, authResp) ==
  IF cr.email = Null \/ cr.apiToken = Null
  THEN [raised |-> TRUE, cfg |-> cfg, jwt |-> Null, trace |-> <<>>]
  ELSE IF isJwtExpired(cfg, t)
  THEN LET auth == authenticate(authResp, t)
       IN IF auth.raised
          THEN [raised |-> TRUE, cfg |-> cfg, jwt |-> Null,
                trace |-> <<"authenticate">>]
          ELSE [raised |-> FALSE,
                cfg |-> [cfg EXCEPT !.jwt = auth.jwt,
                                    !.jwtExpiry = auth.jwtExpiry],
                jwt |-> auth.jwt,
                trace |-> <<"authenticate", "saveConfig">>]
  ELSE [raised |-> FALSE, cfg |-> cfg, jwt |-> cfg.jwt, trace |-> <<>>]

\* a mutation of isAuthError: every error body is taken as a rejected JWT
isAuthErrorAnyError(data, retried) == ~retried /\ data.status = "error"

\* the check for an auth error in the response body
isAuthError(data, retried) ==
  /\ ~retried
  /\ \/ data.status = "error" /\ includes(toLowerCase(data.message), StrAuth)
     \/ data.code = "InvalidToken"
     \/ includes(toLowerCase(data.message), StrInvalidToken)

\* a mutation of clearJwt: the rejected JWT is left in config.json
clearJwtKept(cfg) == cfg

\* the configuration written when a JWT is rejected
clearJwt(cfg) == [cfg EXCEPT !.jwt = Null, !.jwtExpiry = 0]

\* a mutation of handleResponse: a rejected retry is raised as an error
handleResponseRaising(resp, retried) ==
  IF ~resp.net THEN "throw"
  ELSE IF resp.status = 401 /\ ~retried THEN "retry"
  ELSE IF resp.status = 401 THEN "throw"
  ELSE IF ~resp.json THEN "throw"
  ELSE IF isAuthError(resp.body, retried) THEN "retry"
  ELSE "return"

\* what apiRequest does with the answer to its request: fetch rejecting
\* raises; a 401 on the first attempt retries; a body that does not parse
\* raises; an auth error in the body retries; any other body is returned
handleResponse(resp, retried) ==
  IF ~resp.net THEN "throw"
  ELSE IF resp.status = 401 /\ ~retried THEN "retry"
  ELSE IF ~resp.json THEN "throw"
  ELSE IF isAuthError(resp.body, retried) THEN "retry"
  ELSE "return"

\* apiRequest(endpoint, method, body, retried): srv[1] is what the server
\* answers to the first attempt and srv[2] to the retry.  The result holds
\* the outcome (the parsed body returned, or an error raised), the
\* configuration left in config.json, the JWT sent with each request to the
\* endpoint, and the trace of what the call did.
RECURSIVE apiRequest(_, _, _, _, _)
apiRequest(cfg, cr, t, srv, retried) ==
  LET att == srv[IF retried THEN 2 ELSE 1]
      j == getJwt(cfg, cr, t, att.auth)
      todo == handleResponse(att.resp, retried)
  IN IF j.raised
     THEN [outcome |-> "throw", body |-> NoBody, cfg |-> j.cfg,
           sent |-> <<>>, trace |-> j.trace]
     ELSE IF todo = "retry"
     THEN LET r == apiRequest(clearJwt(j.cfg), cr, t, srv, TRUE)
          IN [r EXCEPT !.sent = <<j.jwt>> \o r.sent,
                       !.trace = j.trace \o <<"fetch", "clearJwt">> \o r.trace]
     ELSE [outcome |-> todo,
           body |-> IF todo = "return" THEN att.resp.body ELSE NoBody,
           cfg |-> j.cfg, sent |-> <<j.jwt>>, trace |-> j.trace \o <<"fetch">>]

NoAttempt == [auth |-> [net |-> FALSE, status |-> Null, jwt |-> Null],
              resp |-> [net |-> FALSE, status |-> 0, json |-> FALSE,
                        body |-> NoBody]]

ApiIdle ==
  [called |-> FALSE, srv |-> <<NoAttempt, NoAttempt>>, before |-> DEFAULT_CONFIG,
   outcome |-> Null, body |-> NoBody, sent |-> <<>>, trace |-> <<>>]

CredsSet ==
  { [email |-> "user@example.com", apiToken |-> "token"],
    [email |-> Null, apiToken |-> "token"],
    [email |-> "user@example.com", apiToken |-> Null] }

\* config.json before the call: absent (the defaults), or holding a JWT
\* that an earlier authenticate at time 0 stored
InitConfigs ==
  {DEFAULT_CONFIG} \cup {[jwt |-> j, jwtExpiry |-> JwtLifetimeMs] : j \in Jwts}

\* ------------------------------------------------------------------------
\* findRepo: resolving "owner/repo" against the repositories of an account
\* ------------------------------------------------------------------------

\* the characters of the "owner/repo" arguments tried
RepoChars == {"a", "A", "/"}

\* every string of at most n characters of RepoChars
RECURSIVE StringsUpTo(_)
StringsUpTo(n) ==
  IF n = 0 THEN {<<>>}
  ELSE LET shorter == StringsUpTo(n - 1)
       IN shorter \cup {Append(w, c) : w \in shorter, c \in RepoChars}

\* the repositories the git provider lists: name, and full_name
\* "owner/name" when the provider gives one (<<>> when it gives none)
RepoNames == {<<"a">>, <<"A">>, <<"b">>}
RepoOwners == {<<"a">>, <<"A">>, <<"b">>}
RepoShapes ==
  [name : RepoNames, full_name : {<<>>}]
  \cup {[name |-> n, full_name |-> o \o <<"/">> \o n] : n \in RepoNames, o \in RepoOwners}

\* a list of repositories, each with the id the provider gave it
RepoLists ==
  UNION { { [i \in 1..n |-> [id |-> i, name |-> f[i].name, full_name |-> f[i].full_name]] :
              f \in [1..n -> RepoShapes] } : n \in 0..MaxRepos }

NoRepo == [id |-> 0, name |-> <<>>, full_name |-> <<>>]

\* what apiRequest gives getGitRepos for /api/cicd/getRepoByOrg: an error
\* raised, a bare array, an object whose data is the array, or an object
\* without data (an error payload)
RepoAnswers ==
  [raised : {FALSE}, shape : {"array", "envelope"}, items : RepoLists]
  \cup { [raised |-> FALSE, shape |-> "object", items |-> <<>>],
         [raised |-> TRUE, shape |-> "object", items |-> <<>>] }

\* getGitRepos: response.data || response || []
getGitRepos(answer) ==
  IF answer.shape \in {"array", "envelope"}
  THEN [isArray |-> TRUE, items |-> answer.items]
  ELSE [isArray |-> FALSE, items |-> <<>>]

\* const [owner, repoName] = ownerRepo.split('/'): the first two segments,
\* <<>> for a segment that is missing or empty (both are falsy)
ownerOf(s) == split(s, "/")[1]
repoNameOf(s) == IF Len(split(s, "/")) >= 2 THEN split(s, "/")[2] ELSE <<>>

\* the format check of findRepo: !owner || !repoName raises
validRepoFormat(s) == ownerOf(s) # <<>> /\ repoNameOf(s) # <<>>

\* a mutation of repoMatches: the comparison keeps the letter case
repoMatchesCased(r, s) ==
  \/ r.name = repoNameOf(s)
  \/ r.full_name = s

\* the predicate of repos.find: the name or the full name equals the
\* argument, letter case ignored
repoMatches(r, s) ==
  \/ toLowerCase(r.name) = toLowerCase(repoNameOf(s))
  \/ toLowerCase(r.full_name) = toLowerCase(s)

\* Array.prototype.find with repoMatches: the first entry that matches
findFirst(repos, s) ==
  IF \E i \in DOMAIN repos : repoMatches(repos[i], s)
  THEN repos[CHOOSE i \in DOMAIN repos :
               /\ repoMatches(repos[i], s)
               /\ \A k \in 1..(i - 1) : ~repoMatches(repos[k], s)]
  ELSE NoRepo

\* a mutation of availableNames: the last repository is left out
availableNamesShort(repos) ==
  join([i \in 1..(Len(repos) - 1) |-> repos[i].name], <<",", " ">>)

\* repos.map(r => r.name).join(', ')
availableNames(repos) ==
  join([i \in 1..Len(repos) |-> repos[i].name], <<",", " ">>)

\* findRepo once the repository list request has been answered
findRepoResume(answer, s) ==
  LET repos == getGitRepos(answer)
      repo == findFirst(repos.items, s)
  IN IF answer.raised
     THEN [outcome |-> "throw", error |-> "Remote", repo |-> NoRepo,
           available |-> <<>>, answer |-> answer]
     ELSE IF ~repos.isArray
     THEN [outcome |-> "throw", error |-> "FetchFailed", repo |-> NoRepo,
           available |-> <<>>, answer |-> answer]
     ELSE IF repo = NoRepo
     THEN [outcome |-> "throw", error |-> "NotFound", repo |-> NoRepo,
           available |-> availableNames(repos.items), answer |-> answer]
     ELSE [outcome |-> "return", error |-> Null, repo |-> repo,
           available |-> <<>>, answer |-> answer]

NoAnswer == [raised |-> FALSE, shape |-> "object", items |-> <<>>]

NoRepoRes == [outcome |-> Null, error |-> Null, repo |-> NoRepo,
              available |-> <<>>, answer |-> NoAnswer]

\* ------------------------------------------------------------------------
\* findGitAuthID: the authorization id of an existing pipeline
\* ------------------------------------------------------------------------

GitTypes == {"GITHUB", "GITLAB"}

\* the type and mode fields of a listed pipeline
PipelineKinds ==
  { [type |-> "GITHUB", mode |-> Null],
    [type |-> Null,     mode |-> "GITHUB"],
    [type |-> "GITLAB", mode |-> Null] }

\* the pipelines of service i as the remote API lists them; pipelineID is
\* 10 * i + the place in the list
PipelineLists(i) ==
  UNION { { [k \in 1..n |-> [pipelineID |-> 10 * i + k, type |-> f[k].type,
                             mode |-> f[k].mode]] :
              f \in [1..n -> PipelineKinds] } :
          n \in 0..MaxPipelines }

\* what apiRequest gives for /api/cicd/getServicePipelines: an error
\* raised, an object whose data is the array, an object whose
\* data.pipelines is the array, or an object without data
PipAnswers(i) ==
  [raised : {FALSE}, shape : {"data", "data.pipelines"}, items : PipelineLists(i)]
  \cup { [raised |-> FALSE, shape |-> "nodata", items |-> <<>>],
         [raised |-> TRUE, shape |-> "nodata", items |-> <<>>] }

\* Array.isArray(pipResp.data) ? pipResp.data : (pipResp.data?.pipelines || [])
pipelinesOf(answer) ==
  IF answer.shape \in {"data", "data.pipelines"} THEN answer.items ELSE <<>>

\* what apiRequest gives for /api/cicd/getPipelineDetails of pipeline p: an
\* error raised, or an object with a status and with data.authID or
\* without (0); the authorization id a pipeline carries is its pipelineID
DetAnswers(p) ==
  [raised : {FALSE}, status : {"OK", "error"}, authID : {0, p.pipelineID}]
  \cup { [raised |-> TRUE, status |-> Null, authID |-> 0] }

\* what apiRequest gives for /api/cicd/getCICDServices: an error raised, a
\* bare array of n services, an object whose data.services is that array,
\* or an object without data
SvcAnswers ==
  [raised : {FALSE}, shape : {"array", "data.services"}, n : 0..MaxTargets]
  \cup { [raised |-> FALSE, shape |-> "nodata", n |-> 0],
         [raised |-> TRUE, shape |-> "nodata", n |-> 0] }

\* Array.isArray(cicdResp) ? cicdResp : (cicdResp.data?.services || [])
servicesOf(answer) ==
  IF answer.shape \in {"array", "data.services"} THEN answer.n ELSE 0

\* p.type === gitType || p.mode === gitType
kindMatches(p, gt) == p.type = gt \/ p.mode = gt

\* a mutation of carriesAuthID: the status of the details is not looked at
carriesAuthIDAnyStatus(detResp) == ~detResp.raised /\ detResp.authID # 0

\* detResp.status === 'OK' && detResp.data?.authID
carriesAuthID(detResp) ==
  ~detResp.raised /\ detResp.status = "OK" /\ detResp.authID # 0

\* the record kept of the pipelines listed: how many have the kind asked
\* for and details that answer OK with an authorization id (2 for two or
\* more), the id of the first of them, and whether one of them was passed
\* by after a details lookup on its service had raised
NoneListed == [count |-> 0, authID |-> 0, skipped |-> FALSE]

noteListed(seen, detResp, afterRaise) ==
  IF ~detResp.raised /\ detResp.status = "OK" /\ detResp.authID # 0
  THEN [count |-> IF seen.count = 0 THEN 1 ELSE 2,
        authID |-> IF seen.count = 0 THEN detResp.authID ELSE seen.authID,
        skipped |-> seen.skipped \/ afterRaise]
  ELSE seen

\* ------------------------------------------------------------------------
\* autoCreatePipeline: its inputs, its presets and the payload it submits
\* ------------------------------------------------------------------------

\* an option the caller did not pass
Undefined == "undefined"

\* the values JavaScript takes for false in a || or a ! : a missing
\* option, the empty string and null
falsy(v) == v \in {Undefined, "", Null}

\* a mutation of Or: only a missing option gives way, as with a ?? b
OrNullish(a, b) == IF a = Undefined THEN b ELSE a

\* a || b
Or(a, b) == IF falsy(a) THEN b ELSE a

\* the modes of the documentation, and one that is none of them
SupportedModes == {"github", "github-fullstack", "gitlab", "gitlab-fullstack", "docker"}
Modes == SupportedModes \cup {"bitbucket"}

\* mode.startsWith('gitlab'), over Modes
startsWithGitlab(mode) == mode \in {"gitlab", "gitlab-fullstack"}

\* const mode = options.mode || 'github'
modeOf(opts) == Or(opts.mode, "github")

\* a mutation of gitTypeOf: every git mode is taken for a GitHub one
gitTypeOfGithub(mode) == IF mode = "docker" THEN Null ELSE "GITHUB"

\* the gitType of a mode, Null in docker mode
gitTypeOf(mode) ==
  IF mode = "docker" THEN Null
  ELSE IF startsWithGitlab(mode) THEN "GITLAB"
  ELSE "GITHUB"

\* a mutation of appTypeOf: the full-stack modes are taken for static ones
appTypeOfStatic(mode) == IF mode = "docker" THEN "docker" ELSE "static"

\* the appType of a mode
appTypeOf(mode) ==
  IF mode = "docker" THEN "docker"
  ELSE IF startsWithGitlab(mode)
  THEN (IF mode = "gitlab-fullstack" THEN "node" ELSE "static")
  ELSE (IF mode = "github-fullstack" THEN "node" ELSE "static")

\* a mutation of runsPostDeploy: options.deploy is not read
runsPostDeployAnyway(opts) == appTypeOf(modeOf(opts)) # "docker"

\* options.deploy !== false && appType !== 'docker'
runsPostDeploy(opts) == opts.deploy /\ appTypeOf(modeOf(opts)) # "docker"

\* a mutation of RUNTIME_PRESETS: the node preset listens on another port
RUNTIME_PRESETS_NodePort ==
  [static |-> [runtime |-> "staticSPA", buildDir |-> "/dist", framework |-> "Vite.js",
               buildCmd |-> "npm run build", runCmd |-> "", installCmd |-> "npm install",
               version |-> "20", containerPort |-> "3000"],
   node   |-> [runtime |-> "node", buildDir |-> "/", framework |-> "No Framework",
               buildCmd |-> "npm run build", runCmd |-> "npm start",
               installCmd |-> "npm install", version |-> "20", containerPort |-> "8080"],
   docker |-> [runtime |-> "", buildDir |-> "/", framework |-> "",
               buildCmd |-> "", runCmd |-> "", installCmd |-> "",
               version |-> "", containerPort |-> "80"]]

RUNTIME_PRESETS ==
  [static |-> [runtime |-> "staticSPA", buildDir |-> "/dist", framework |-> "Vite.js",
               buildCmd |-> "npm run build", runCmd |-> "", installCmd |-> "npm install",
               version |-> "20", containerPort |-> "3000"],
   node   |-> [runtime |-> "node", buildDir |-> "/", framework |-> "No Framework",
               buildCmd |-> "npm run build", runCmd |-> "npm start",
               installCmd |-> "npm install", version |-> "20", containerPort |-> "3000"],
   docker |-> [runtime |-> "", buildDir |-> "/", framework |-> "",
               buildCmd |-> "", runCmd |-> "", installCmd |-> "",
               version |-> "", containerPort |-> "80"]]

\* a mutation of presetOf: the static preset whatever the appType
presetOfStatic(appType) == RUNTIME_PRESETS["static"]

\* RUNTIME_PRESETS[appType] || RUNTIME_PRESETS.static
presetOf(appType) ==
  IF appType \in DOMAIN RUNTIME_PRESETS
  THEN RUNTIME_PRESETS[appType]
  ELSE RUNTIME_PRESETS["static"]

\* String(n) of a small number
RECURSIVE String(_)
String(n) ==
  IF n < 10
  THEN <<"0", "1", "2", "3", "4", "5", "6", "7", "8", "9">>[n + 1]
  ELSE String(n \div 10) \o String(n % 10)

\* what getCicdTargetInfo returns; NoTarget before it has returned
NoTarget == [displayName |-> Undefined, id |-> Undefined,
             serverName |-> Undefined, vmID |-> Undefined]

\* the repository findRepo returned and its private flag; NoRepoData when
\* repoData is null
NoRepoData == [id |-> 0, private |-> FALSE]

\* the payload of the request for /api/cicd/createCiCdExistServer; the
\* URLs are sequences, the fixed parts followed by the characters of
\* options.repo
buildPayload(opts, pid, aid, rd, tgt) ==
  LET mode == modeOf(opts)
      gt == gitTypeOf(mode)
      preset == presetOf(appTypeOf(mode))
      branch == Or(opts.branch, "main")
      repoName == IF opts.repo # <<>> /\ Len(split(opts.repo, "/")) >= 2
                  THEN split(opts.repo, "/")[2] ELSE <<>>
      gitHost == IF gt = "GITLAB" THEN "gitlab.com" ELSE "github.com"
  IN [ CICDMode |-> Or(gt, "DOCKER"),
       pipelineName |-> opts.name,
       projectID |-> pid,
       authID |-> IF falsy(aid) THEN "0" ELSE aid,
       ports |-> << [protocol |-> "HTTPS", targetProtocol |-> "HTTP",
                     listeningPort |-> "443", targetPort |-> "3000",
                     public |-> TRUE, targetIP |-> "172.17.0.1", path |-> "/",
                     isAuth |-> FALSE, login |-> "", password |-> ""] >>,
       variables |-> Or(opts.variables, ""),
       cluster |-> [isCluster |-> FALSE, createNew |-> FALSE, target |-> tgt],
       imageData |->
         IF ~falsy(gt)
         THEN [isPipelineTemplate |-> FALSE]
         ELSE [imageName |-> Or(opts.image, "nginx"),
               imageTag |-> Or(opts.imageTag, "alpine"),
               registryUrl |-> "", isPipelineTemplate |-> FALSE],
       configData |->
         [buildDir |-> Or(opts.buildDir, preset.buildDir),
          rootDir |-> Or(opts.rootDir, "/"),
          runtime |-> preset.runtime,
          version |-> Or(opts.nodeVersion, preset.version),
          framework |-> Or(opts.framework, preset.framework),
          buildCmd |-> Or(opts.buildCmd, preset.buildCmd),
          runCmd |-> Or(opts.runCmd, preset.runCmd),
          installCmd |-> Or(opts.installCmd, preset.installCmd)],
       gitData |->
         IF ~falsy(gt)
         THEN [projectName |-> opts.name,
               branch |-> branch,
               repoUrl |-> <<"https://", gitHost, "/">> \o opts.repo,
               cloneUrl |-> <<"https://", gitHost, "/">> \o opts.repo \o <<".git">>,
               repoID |-> String(rd.id),
               repo |-> repoName]
         ELSE [projectName |-> opts.name,
               branch |-> "main",
               repoUrl |-> <<>>,
               cloneUrl |-> <<>>,
               repoID |-> "0",
               repo |-> <<>>],
       exposedPorts |-> << [protocol |-> "HTTP", hostPort |-> "3000",
                            containerPort |-> preset.containerPort,
                            interface |-> "172.17.0.1"] >>,
       gitVolumeConfig |-> <<>>,
       isNeedToCreateRepo |-> falsy(gt),
       isPublicGitRepo |-> IF rd # NoRepoData
                           THEN (IF rd.private THEN "false" ELSE "true")
                           ELSE "false",
       isMovePipeline |-> FALSE,
       nonRepoWorkSpaces |-> <<"">>,
       gitUserFormData |-> <<>> ]

\* no payload built yet
NoPayload == [CICDMode |-> Null]

\* the options nothing overrides: every optional field left out
NoOverrides ==
  [branch |-> Undefined, buildDir |-> Undefined, rootDir |-> Undefined,
   nodeVersion |-> Undefined, framework |-> Undefined, buildCmd |-> Undefined,
   runCmd |-> Undefined, installCmd |-> Undefined, variables |-> Undefined,
   image |-> Undefined, imageTag |-> Undefined]

\* what a caller passes for a field it may override: nothing, the empty
\* string, or a value of its own
OverrideValues == {Undefined, "", "custom"}

\* the combinations of overrides tried
Overrides ==
  [branch : OverrideValues, buildDir : OverrideValues, rootDir : {Undefined},
   nodeVersion : OverrideValues, framework : OverrideValues,
   buildCmd : OverrideValues, runCmd : OverrideValues,
   installCmd : OverrideValues, variables : {Undefined},
   image : {Undefined, "custom"}, imageTag : {Undefined}]

\* the options of a call: the required ones, the repository and the
\* authorization id, deploy (false only when the caller passed false), and
\* the overrides
optionsOf(project, tgt, name, mode, repo, authId, deploy, over) ==
  [project |-> project, target |-> tgt, name |-> name, mode |-> mode,
   repo |-> repo, authId |-> authId, deploy |-> deploy,
   branch |-> over.branch, buildDir |-> over.buildDir, rootDir |-> over.rootDir,
   nodeVersion |-> over.nodeVersion, framework |-> over.framework,
   buildCmd |-> over.buildCmd, runCmd |-> over.runCmd,
   installCmd |-> over.installCmd, variables |-> over.variables,
   image |-> over.image, imageTag |-> over.imageTag]

\* options.project || config.defaultProject
pidOf(opts, dflt) == Or(opts.project, dflt)

\* the services of a project as /api/cicd/getCICDServices lists them: a
\* service has a providerServerID, a vmID, or both
ServiceShapes ==
  { [providerServerID |-> "vm1", vmID |-> Undefined, id |-> "s1"],
    [providerServerID |-> Undefined, vmID |-> "vm1", id |-> "s2"],
    [providerServerID |-> "vm2", vmID |-> "vm1", id |-> "s3"],
    [providerServerID |-> "vm2", vmID |-> Undefined, id |-> "s4"] }

ServiceLists ==
  UNION { [1..n -> ServiceShapes] : n \in 0..MaxTargets }

\* what apiRequest gives getCicdTargetInfo: an error raised, a bare array,
\* an object whose data.services is the array, or an object without data
TargetAnswers ==
  [raised : {FALSE}, shape : {"array", "data.services"}, items : ServiceLists]
  \cup { [raised |-> FALSE, shape |-> "nodata", items |-> <<>>],
         [raised |-> TRUE, shape |-> "nodata", items |-> <<>>] }

\* the predicate of services.find in getCicdTargetInfo
isTarget(s, vmID) == s.providerServerID = vmID \/ s.vmID = vmID

\* getCicdTargetInfo once its request has been answered: the first service
\* that matches, or NoTarget when none does
getCicdTargetInfo(answer, vmID) ==
  LET services == IF answer.shape \in {"array", "data.services"}
                  THEN answer.items ELSE <<>>
      hits == {i \in DOMAIN services : isTarget(services[i], vmID)}
      t == services[CHOOSE i \in hits : \A k \in hits : i <= k]
  IN IF hits = {} THEN NoTarget
     ELSE [displayName |-> t.id, id |-> t.id, serverName |-> "",
           vmID |-> Or(t.providerServerID, t.vmID)]

\* what apiRequest gives getGitOrgs for /api/cicd/getGitOrgs: an error
\* raised, or an object with a status, with or without data, and in data
\* n accounts under scopeUsers
OrgAnswers ==
  [raised : {FALSE}, status : {"OK", "error"}, data : {TRUE}, n : 0..1]
  \cup [raised : {FALSE}, status : {"OK", "error"}, data : {FALSE}, n : {0}]
  \cup { [raised |-> TRUE, status |-> Null, data |-> FALSE, n |-> 0] }

\* getGitOrgs raises: the request did, or the answer has neither status OK
\* nor data
getGitOrgsRaises(answer) ==
  answer.raised \/ (answer.status # "OK" /\ ~answer.data)

\* what apiRequest gives for /api/cicd/createCiCdExistServer: an error
\* raised, or an object with a status, with a providerServerID or without,
\* and when the status is not OK with a message or without
CreateAnswers ==
  [raised : {FALSE}, status : {"OK"}, providerServerID : {Undefined, "vm9"},
   message : {Undefined}]
  \cup [raised : {FALSE}, status : {"error"}, providerServerID : {Undefined, "vm9"},
        message : {Undefined, "quota exceeded"}]
  \cup { [raised |-> TRUE, status |-> Null, providerServerID |-> Undefined,
          message |-> Undefined] }

\* a mutation of createRejected: a response without status OK is rejected
\* even when it has a providerServerID
createRejectedNotOK(response) == response.status # "OK"

\* response.status !== 'OK' && !response.providerServerID
createRejected(response) ==
  response.status # "OK" /\ falsy(response.providerServerID)

\* JSON.stringify(response): the fields that are defined
stringify(response) ==
  "{\"status\":\"" \o response.status \o "\""
  \o (IF response.providerServerID = Undefined THEN ""
      ELSE ",\"providerServerID\":\"" \o response.providerServerID \o "\"")
  \o (IF response.message = Undefined THEN ""
      ELSE ",\"message\":\"" \o response.message \o "\"")
  \o "}"

\* response.message || JSON.stringify(response)
rejectionMessage(response) == Or(response.message, stringify(response))

\* what findGitAuthID returns to autoCreatePipeline: null, or the
\* authorization id of a pipeline
FoundAuthIDs == {Null, "11"}

\* a mutation of noAuthFound: the search result is taken as it is
noAuthFoundIgnored(aid) == FALSE

\* if (!authID) throw, after findGitAuthID
noAuthFound(aid) == falsy(aid)

\* what apiRequest gives getServiceDetails for
\* /api/servers/getServerDetails: an error raised, or an object with
\* serviceInfos (as many as infos says), a status, data or none, a message
\* or none; ipv4 is the address in the details it carries
DetailsAnswers ==
  [raised : {FALSE}, infos : {1}, status : {"OK"}, data : {FALSE},
   message : {FALSE}, ipv4 : {Undefined, "10.0.0.1"}]
  \cup [raised : {FALSE}, infos : {0}, status : {"OK"}, data : {TRUE},
        message : {FALSE}, ipv4 : {Undefined, "10.0.0.1"}]
  \cup [raised : {FALSE}, infos : {0}, status : {"OK", "KO"}, data : {FALSE},
        message : BOOLEAN, ipv4 : {Undefined}]
  \cup { [raised |-> TRUE, infos |-> 0, status |-> Null, data |-> FALSE,
          message |-> FALSE, ipv4 |-> Undefined] }

\* getServiceDetails once its request has been answered: it raises, it
\* returns null, or it returns the details
getServiceDetails(answer) ==
  IF answer.raised THEN [outcome |-> "throw", isNull |-> TRUE, ipv4 |-> Undefined]
  ELSE IF answer.infos > 0
  THEN [outcome |-> "return", isNull |-> FALSE, ipv4 |-> answer.ipv4]
  ELSE IF answer.status = "OK" /\ answer.data
  THEN [outcome |-> "return", isNull |-> FALSE, ipv4 |-> answer.ipv4]
  ELSE IF answer.status = "KO" \/ answer.message
  THEN [outcome |-> "throw", isNull |-> TRUE, ipv4 |-> Undefined]
  ELSE [outcome |-> "return", isNull |-> TRUE, ipv4 |-> Undefined]

\* let retries = 12
WaitRetries == 12

\* what a probe of the wait loop gives: the output with OK, the output
\* with WAIT, or an error raised by sshExec
WaitProbes == {"OK", "WAIT", "throw"}

\* what the probe of the Verifying step gives: the HTTP code curl prints,
\* or an error raised by sshExec
HttpProbes == {"200", "503", "throw"}

\* a mutation of KeyRegisteredSteps: ensureSSHAccess returns without the
\* delay
KeyRegisteredStepsNoDelay == <<>>

\* what ensureSSHAccess does once the key is registered: it sleeps for the
\* propagation of the key
KeyRegisteredSteps == <<"keySettle">>

\* a mutation of BuildSteps: the application is started before it is built
BuildStepsUpFirst == <<"writeDockerfile", "writeCompose", "touchEnv", "up", "build">>

\* the commands postDeployFix runs between its wait loop and its last
\* sleep, in their order
BuildSteps == <<"writeDockerfile", "writeCompose", "touchEnv", "build", "up">>

\* a mutation of postDeployCaught: the error is raised again
postDeployRethrown(res) == [res EXCEPT !.outcome = "throw"]

\* the catch around postDeployFix: autoCreatePipeline goes on to return
\* the response
postDeployCaught(res) == [res EXCEPT !.outcome = "return"]

\* a mutation of probeFound: the loop never breaks
probeFoundNever(result) == FALSE

\* result.includes('OK') of a probe that did not raise
probeFound(result) == result = "OK"

\* a mutation of siteLive: any code that curl prints counts
siteLiveAny(httpCode) == TRUE

\* httpCode === '200'
siteLive(httpCode) == httpCode = "200"

NoResponse == [raised |-> FALSE, status |-> Null, providerServerID |-> Undefined,
               message |-> Undefined]

\* autoCreatePipeline is running
AutoRunning == [outcome |-> "running", error |-> Null, response |-> NoResponse]

\* autoCreatePipeline has raised
autoRaise(error) == [outcome |-> "throw", error |-> error, response |-> NoResponse]

\* ------------------------------------------------------------------------
\* The parts of the state a specification does not use
\* ------------------------------------------------------------------------

\* findRepo is not running
RepoOff ==
  /\ repoPc = "off"
  /\ ownerRepo = <<>>
  /\ repoReqs = 0
  /\ repoRes = NoRepoRes

AuthOff ==
  /\ authPc = "off"
  /\ gitType = Null
  /\ nSvcs = 0
  /\ svcIdx = 0
  /\ pipelines = <<>>
  /\ pipIdx = 0
  /\ caught = FALSE
  /\ authRes = [returned |-> FALSE, id |-> 0]
  /\ listed = NoneListed

\* nothing logged or done after the creation response
DeployIdle ==
  /\ postDeploy = Null
  /\ events = <<>>
  /\ retries = 0
  /\ lastProbe = Null

AutoOff ==
  /\ autoPc = "off"
  /\ options = optionsOf(Undefined, Undefined, Undefined, Undefined, <<>>,
                         Undefined, TRUE, NoOverrides)
  /\ defaultProject = Undefined
  /\ reqLog = <<>>
  /\ target = NoTarget
  /\ authID = Null
  /\ found = "uncalled"
  /\ repoData = NoRepoData
  /\ payload = NoPayload
  /\ DeployIdle
  /\ autoRes = AutoRunning

\* ensureSSHAccess is not running and ~/.ssh holds no key
SshOff ==
  /\ sshPc = "off"
  /\ keyFiles = [priv |-> 0, pub |-> 0]
  /\ sshLog = <<>>
  /\ sshVm = Null

\* resizeServer is not running
ResizeOff ==
  /\ resizePc = "off"
  /\ resizeIn = Null
  /\ resizeReqs = <<>>
  /\ resizeRes = Null

\* no delete operation is called
DelOff ==
  /\ delCall = Null
  /\ delReqs = <<>>
  /\ delRes = Null

\* the configuration files are not looked at
CfgOff ==
  /\ configFile = Null
  /\ envFile = Null
  /\ cfgWrites = <<>>
  /\ cfgLoads = <<>>

\* no firewall operation is running
FwOff ==
  /\ fwPc = "off"
  /\ fwIn = Null
  /\ fwSeen = <<>>
  /\ fwReqs = <<>>
  /\ fwRes = Null

\* waitForDeployment is not running
WaitOff ==
  /\ waitPc = "off"
  /\ waitIn = Null
  /\ elapsed = 0
  /\ polls = <<>>
  /\ waitRes = Null

\* none of the other operations of the library is running
LibOff == SshOff /\ ResizeOff /\ DelOff /\ CfgOff /\ FwOff /\ WaitOff

\* ------------------------------------------------------------------------
\* findRepo on its own
\* ------------------------------------------------------------------------

InitRepo ==
  /\ config = DEFAULT_CONFIG
  /\ creds \in {c \in CredsSet : c.email # Null /\ c.apiToken # Null}
  /\ now = 0
  /\ apiRes = ApiIdle
  /\ repoPc = "start"
  /\ ownerRepo \in StringsUpTo(MaxRepoLen)
  /\ repoReqs = 0
  /\ repoRes = NoRepoRes
  /\ LibOff
  /\ AuthOff
  /\ AutoOff

\* findRepo up to its await: the format check, then the request for the
\* repository list of the owner
FindRepoCall ==
  /\ repoPc = "start"
  /\ IF validRepoFormat(ownerRepo)
     THEN /\ repoPc' = "awaiting"
          /\ repoReqs' = repoReqs + 1
          /\ UNCHANGED repoRes
     ELSE /\ repoPc' = "done"
          /\ repoRes' = [NoRepoRes EXCEPT !.outcome = "throw",
                                          !.error = "InvalidFormat"]
          /\ UNCHANGED repoReqs
  /\ UNCHANGED <<ownerRepo, apiVars, authVars, autoVars, libVars>>

\* findRepo from the answer to its end
FindRepoResume ==
  /\ repoPc = "awaiting"
  /\ \E answer \in RepoAnswers :
       repoRes' = findRepoResume(answer, ownerRepo)
  /\ repoPc' = "done"
  /\ UNCHANGED <<ownerRepo, repoReqs, apiVars, authVars, autoVars, libVars>>

NextRepo == FindRepoCall \/ FindRepoResume

SpecRepo == InitRepo /\ [][NextRepo]_vars

\* ------------------------------------------------------------------------
\* findGitAuthID on its own
\* ------------------------------------------------------------------------

InitAuth ==
  /\ config = DEFAULT_CONFIG
  /\ creds \in {c \in CredsSet : c.email # Null /\ c.apiToken # Null}
  /\ now = 0
  /\ apiRes = ApiIdle
  /\ LibOff
  /\ RepoOff
  /\ authPc = "start"
  /\ gitType \in GitTypes
  /\ nSvcs = 0
  /\ svcIdx = 0
  /\ pipelines = <<>>
  /\ pipIdx = 0
  /\ caught = FALSE
  /\ authRes = [returned |-> FALSE, id |-> 0]
  /\ listed = NoneListed
  /\ AutoOff

\* the services lookup is answered: an error raised is caught by the outer
\* catch and null is returned; otherwise the outer loop starts
AuthListServices ==
  /\ authPc = "start"
  /\ \E answer \in SvcAnswers :
       IF answer.raised
       THEN /\ authPc' = "done"
            /\ authRes' = [returned |-> TRUE, id |-> 0]
            /\ UNCHANGED <<nSvcs, svcIdx>>
       ELSE /\ authPc' = "service"
            /\ nSvcs' = servicesOf(answer)
            /\ svcIdx' = 1
            /\ UNCHANGED authRes
  /\ UNCHANGED <<gitType, pipelines, pipIdx, caught, listed, apiVars, repoVars, autoVars, libVars>>

\* the outer loop is over: return null
AuthReturnNull ==
  /\ authPc = "service"
  /\ svcIdx > nSvcs
  /\ authPc' = "done"
  /\ authRes' = IF authRes.returned THEN authRes ELSE [returned |-> TRUE, id |-> 0]
  /\ UNCHANGED <<gitType, nSvcs, svcIdx, pipelines, pipIdx, caught, listed,
                 apiVars, repoVars, autoVars, libVars>>

\* the pipelines lookup of the service at hand is answered: an error raised
\* is caught by the inner catch and the service is skipped; otherwise the
\* inner loop starts
AuthListPipelines ==
  /\ authPc = "service"
  /\ ~authRes.returned
  /\ svcIdx <= nSvcs
  /\ \E answer \in PipAnswers(svcIdx) :
       IF answer.raised
       THEN /\ svcIdx' = svcIdx + 1
            /\ UNCHANGED <<authPc, pipelines, pipIdx>>
       ELSE /\ authPc' = "pipeline"
            /\ pipelines' = pipelinesOf(answer)
            /\ pipIdx' = 1
            /\ UNCHANGED svcIdx
  /\ UNCHANGED <<gitType, nSvcs, caught, authRes, listed, apiVars, repoVars, autoVars, libVars>>

\* one turn of the inner loop: a pipeline of another kind is passed over;
\* for one of the kind asked for the details are looked up: an error raised
\* is caught by the inner catch, which ends the inner loop; details that
\* carry an authorization id make findGitAuthID return it
AuthCheckPipeline ==
  /\ authPc = "pipeline"
  /\ ~authRes.returned /\ ~caught
  /\ pipIdx <= Len(pipelines)
  /\ LET p == pipelines[pipIdx]
     IN IF ~kindMatches(p, gitType)
        THEN UNCHANGED <<caught, authRes, listed>>
        ELSE \E detResp \in DetAnswers(p) :
               /\ caught' = detResp.raised
               /\ authRes' = IF carriesAuthID(detResp)
                             THEN [returned |-> TRUE, id |-> detResp.authID]
                             ELSE authRes
               /\ listed' = noteListed(listed, detResp, FALSE)
  /\ pipIdx' = pipIdx + 1
  /\ UNCHANGED <<authPc, gitType, nSvcs, svcIdx, pipelines, apiVars, repoVars, autoVars, libVars>>

\* a pipeline the inner loop does not get to, because the inner catch has
\* ended it or findGitAuthID has returned: what its details lookup would
\* answer
AuthPipelineNotVisited ==
  /\ authPc = "pipeline"
  /\ authRes.returned \/ caught
  /\ pipIdx <= Len(pipelines)
  /\ LET p == pipelines[pipIdx]
     IN IF ~kindMatches(p, gitType)
        THEN UNCHANGED listed
        ELSE \E detResp \in DetAnswers(p) :
               listed' = noteListed(listed, detResp, caught)
  /\ pipIdx' = pipIdx + 1
  /\ UNCHANGED <<authPc, gitType, nSvcs, svcIdx, pipelines, caught, authRes,
                 apiVars, repoVars, autoVars, libVars>>

\* the end of the list of pipelines: on to the next service
AuthNextService ==
  /\ authPc = "pipeline"
  /\ pipIdx > Len(pipelines)
  /\ authPc' = "service"
  /\ svcIdx' = svcIdx + 1
  /\ caught' = FALSE
  /\ UNCHANGED <<gitType, nSvcs, pipelines, pipIdx, authRes, listed,
                 apiVars, repoVars, autoVars, libVars>>

\* a service the outer loop does not get to, because findGitAuthID has
\* returned: what its pipelines lookup would list
AuthServiceNotVisited ==
  /\ authPc = "service"
  /\ authRes.returned
  /\ svcIdx <= nSvcs
  /\ \E answer \in PipAnswers(svcIdx) :
       /\ pipelines' = pipelinesOf(answer)
       /\ pipIdx' = 1
  /\ authPc' = "pipeline"
  /\ UNCHANGED <<gitType, nSvcs, svcIdx, caught, authRes, listed,
                 apiVars, repoVars, autoVars, libVars>>

NextAuth ==
  \/ AuthListServices
  \/ AuthListPipelines
  \/ AuthCheckPipeline
  \/ AuthPipelineNotVisited
  \/ AuthNextService
  \/ AuthServiceNotVisited
  \/ AuthReturnNull

SpecAuth == InitAuth /\ [][NextAuth]_vars

\* ------------------------------------------------------------------------
\* autoCreatePipeline
\* ------------------------------------------------------------------------

\* the "owner/repo" arguments tried: none, two well-formed ones, one with a
\* third segment, one without a slash
AutoRepos ==
  { <<>>, <<"a", "/", "a">>, <<"A", "/", "b">>, <<"a", "/", "a", "/">>, <<"a">> }

\* the answers to the repository list request tried: those of RepoAnswers
\* that list at most one repository
AutoRepoAnswers ==
  [raised : {FALSE}, shape : {"array", "envelope"},
   items : {<<>>} \cup {<<[id |-> 1, name |-> r.name, full_name |-> r.full_name]>> :
                          r \in RepoShapes}]
  \cup { [raised |-> FALSE, shape |-> "object", items |-> <<>>],
         [raised |-> TRUE, shape |-> "object", items |-> <<>>] }

InitAuto ==
  /\ config = DEFAULT_CONFIG
  /\ creds \in {c \in CredsSet : c.email # Null /\ c.apiToken # Null}
  /\ now = 0
  /\ apiRes = ApiIdle
  /\ LibOff
  /\ RepoOff
  /\ AuthOff
  /\ autoPc = "start"
  /\ \E project \in {Undefined, "p1"}, tgt \in {Undefined, "vm1"},
        name \in {Undefined, "app"}, mode \in Modes \cup {Undefined},
        repo \in AutoRepos, authId \in {Undefined, "7"}, deploy \in BOOLEAN :
       options = optionsOf(project, tgt, name, mode, repo, authId, deploy,
                           NoOverrides)
  /\ defaultProject \in {Undefined, "p0"}
  /\ reqLog = <<>>
  /\ target = NoTarget
  /\ authID = Null
  /\ found = "uncalled"
  /\ repoData = NoRepoData
  /\ payload = NoPayload
  /\ DeployIdle
  /\ autoRes = AutoRunning

\* autoCreatePipeline ends by raising
AutoRaise(error) ==
  /\ autoPc' = "done"
  /\ autoRes' = autoRaise(error)

\* the payload is built and the creation request is sent
AutoSubmit(aid, rd, tgt) ==
  /\ payload' = buildPayload(options, pidOf(options, defaultProject), aid, rd, tgt)
  /\ reqLog' = Append(reqLog, "createCiCdExistServer")
  /\ autoPc' = "create"

\* findRepo up to its await, as autoCreatePipeline calls it
AutoFindRepo ==
  IF validRepoFormat(options.repo)
  THEN /\ reqLog' = Append(reqLog, "getRepoByOrg")
       /\ autoPc' = "repo"
       /\ UNCHANGED autoRes
  ELSE /\ AutoRaise("InvalidFormat")
       /\ UNCHANGED reqLog

\* from the call to the first await: the checks of the project, the target
\* and the name, then getCicdTargetInfo sends its request
AutoStart ==
  /\ autoPc = "start"
  /\ IF falsy(pidOf(options, defaultProject))
     THEN AutoRaise("ProjectRequired") /\ UNCHANGED reqLog
     ELSE IF falsy(options.target)
     THEN AutoRaise("TargetRequired") /\ UNCHANGED reqLog
     ELSE IF falsy(options.name)
     THEN AutoRaise("NameRequired") /\ UNCHANGED reqLog
     ELSE /\ reqLog' = Append(reqLog, "getCICDServices")
          /\ autoPc' = "target"
          /\ UNCHANGED autoRes
  /\ UNCHANGED <<options, defaultProject, target, authID, found, repoData,
                 payload, deployVars, apiVars, repoVars, authVars, libVars>>

\* getCicdTargetInfo is answered; in a git mode the repository option is
\* checked and findGitAuthID or getGitOrgs sends its request; in docker
\* mode the payload is built and submitted
AutoTarget ==
  /\ autoPc = "target"
  /\ \E answer \in TargetAnswers :
       LET t == getCicdTargetInfo(answer, options.target)
           aid == IF falsy(options.authId) THEN Null ELSE options.authId
       IN IF answer.raised
          THEN /\ AutoRaise("Remote")
               /\ UNCHANGED <<reqLog, target, authID, payload>>
          ELSE IF t = NoTarget
          THEN /\ AutoRaise("TargetNotFound")
               /\ UNCHANGED <<reqLog, target, authID, payload>>
          ELSE IF falsy(gitTypeOf(modeOf(options)))
          THEN /\ target' = t
               /\ authID' = aid
               /\ AutoSubmit(aid, NoRepoData, t)
               /\ UNCHANGED autoRes
          ELSE IF options.repo = <<>>
          THEN /\ AutoRaise("RepoRequired")
               /\ target' = t
               /\ authID' = aid
               /\ UNCHANGED <<reqLog, payload>>
          ELSE /\ target' = t
               /\ authID' = aid
               /\ IF falsy(aid)
                  THEN /\ reqLog' = Append(reqLog, "getCICDServices")
                       /\ autoPc' = "findAuth"
                  ELSE /\ reqLog' = Append(reqLog, "getGitOrgs")
                       /\ autoPc' = "orgs"
               /\ UNCHANGED <<autoRes, payload>>
  /\ UNCHANGED <<options, defaultProject, found, repoData, deployVars,
                 apiVars, repoVars, authVars, libVars>>

\* findGitAuthID has returned: without an authorization id
\* autoCreatePipeline raises, with one getGitOrgs sends its request
AutoAuthFound ==
  /\ autoPc = "findAuth"
  /\ \E id \in FoundAuthIDs :
       /\ found' = id
       /\ authID' = id
       /\ IF noAuthFound(id)
          THEN AutoRaise("NoAuthFound") /\ UNCHANGED reqLog
          ELSE /\ reqLog' = Append(reqLog, "getGitOrgs")
               /\ autoPc' = "orgs"
               /\ UNCHANGED autoRes
  /\ UNCHANGED <<options, defaultProject, target, repoData, payload,
                 deployVars, apiVars, repoVars, authVars, libVars>>

\* getGitOrgs is answered: without an account autoCreatePipeline raises,
\* with one findRepo starts
AutoOrgs ==
  /\ autoPc = "orgs"
  /\ \E answer \in OrgAnswers :
       IF getGitOrgsRaises(answer)
       THEN AutoRaise("Remote") /\ UNCHANGED reqLog
       ELSE IF answer.n = 0
       THEN AutoRaise("NoAccounts") /\ UNCHANGED reqLog
       ELSE AutoFindRepo
  /\ UNCHANGED <<options, defaultProject, target, authID, found, repoData,
                 payload, deployVars, apiVars, repoVars, authVars, libVars>>

\* the repository list is answered: findRepo raises, or it returns the
\* repository, and the payload is built and submitted
AutoRepo ==
  /\ autoPc = "repo"
  /\ \E answer \in AutoRepoAnswers, private \in BOOLEAN :
       LET r == findRepoResume(answer, options.repo)
           rd == [id |-> r.repo.id, private |-> private]
       IN IF r.outcome = "throw"
          THEN /\ AutoRaise(r.error)
               /\ UNCHANGED <<reqLog, repoData, payload>>
          ELSE /\ repoData' = rd
               /\ AutoSubmit(authID, rd, target)
               /\ UNCHANGED autoRes
  /\ UNCHANGED <<options, defaultProject, target, authID, found, deployVars,
                 apiVars, repoVars, authVars, libVars>>

\* the catch around postDeployFix in autoCreatePipeline: after what was
\* done before the error, the warning is logged and the response of the
\* creation request is returned
PostCaught(done) ==
  /\ events' = events \o done \o <<"warn:postDeployFailed">>
  /\ autoPc' = "done"
  /\ autoRes' = postDeployCaught(autoRes)

\* the creation request is answered: a response that is rejected makes
\* autoCreatePipeline raise; after one that is accepted it returns the
\* response at once in docker mode or with deploy false, and otherwise
\* calls postDeployFix, which asks for the details of the service
AutoCreated ==
  /\ autoPc = "create"
  /\ \E response \in CreateAnswers :
       IF response.raised
       THEN AutoRaise("Remote") /\ UNCHANGED <<reqLog, events>>
       ELSE IF createRejected(response)
       THEN /\ autoPc' = "done"
            /\ autoRes' = [outcome |-> "throw",
                           error |-> rejectionMessage(response),
                           response |-> response]
            /\ UNCHANGED <<reqLog, events>>
       ELSE IF runsPostDeploy(options)
       THEN /\ events' = <<"success:created">>
            /\ reqLog' = Append(reqLog, "getServerDetails")
            /\ autoPc' = "details"
            /\ autoRes' = [AutoRunning EXCEPT !.response = response]
       ELSE /\ events' = <<"success:created">>
            /\ autoPc' = "done"
            /\ autoRes' = [outcome |-> "return", error |-> Null,
                           response |-> response]
            /\ UNCHANGED reqLog
  /\ UNCHANGED <<options, defaultProject, target, authID, found, repoData,
                 payload, postDeploy, retries, lastProbe,
                 apiVars, repoVars, authVars, libVars>>

\* postDeployFix gets the details of the service: without an address it
\* raises; with one ensureSSHAccess starts: the key is generated when the
\* key file is missing, the public key is read, and the request that adds
\* it to the service is sent
PostDetails ==
  /\ autoPc = "details"
  /\ \E answer \in DetailsAnswers, keyExists \in BOOLEAN,
        failure \in {"none", "keygen", "readKey"} :
       LET details == getServiceDetails(answer)
           keygen == IF keyExists THEN <<>> ELSE <<"keygen">>
       IN /\ failure = "keygen" => ~keyExists
          /\ IF details.outcome = "throw" \/ details.isNull \/ falsy(details.ipv4)
             THEN /\ PostCaught(<<>>)
                  /\ postDeploy' = "raise"
                  /\ UNCHANGED reqLog
             ELSE IF failure # "none"
             THEN /\ PostCaught(IF failure = "keygen" THEN <<"keygen">>
                                ELSE keygen \o <<"readKey">>)
                  /\ postDeploy' = "raise"
                  /\ UNCHANGED reqLog
             ELSE /\ events' = events \o keygen \o <<"readKey", "registerKey">>
                  /\ reqLog' = Append(reqLog, "DoActionOnServer")
                  /\ autoPc' = "register"
                  /\ UNCHANGED <<autoRes, postDeploy>>
  /\ UNCHANGED <<options, defaultProject, target, authID, found, repoData,
                 payload, retries, lastProbe, apiVars, repoVars, authVars, libVars>>

\* the request that adds the key is answered: an error raised ends
\* postDeployFix; otherwise ensureSSHAccess sleeps and returns, and the
\* wait loop starts with 12 retries
PostKeyRegistered ==
  /\ autoPc = "register"
  /\ \E raised \in BOOLEAN :
       IF raised
       THEN /\ PostCaught(<<>>)
            /\ postDeploy' = "raise"
            /\ UNCHANGED retries
       ELSE /\ events' = events \o KeyRegisteredSteps
            /\ retries' = WaitRetries
            /\ autoPc' = "wait"
            /\ UNCHANGED <<autoRes, postDeploy>>
  /\ UNCHANGED <<options, defaultProject, reqLog, target, authID, found,
                 repoData, payload, lastProbe, apiVars, repoVars, authVars, libVars>>

\* one turn of the wait loop: a probe that finds the file breaks the loop;
\* after any other the loop sleeps and has one retry less, and when none
\* is left it ends with the warning
PostProbe ==
  /\ autoPc = "wait"
  /\ retries > 0
  /\ \E result \in WaitProbes :
       /\ lastProbe' = result
       /\ IF result # "throw" /\ probeFound(result)
          THEN /\ events' = Append(events, "probe")
               /\ autoPc' = "write"
               /\ UNCHANGED retries
          ELSE /\ retries' = retries - 1
               /\ events' = events \o <<"probe", "sleep">>
                            \o (IF retries - 1 = 0 THEN <<"warn:notReady">> ELSE <<>>)
               /\ autoPc' = IF retries - 1 = 0 THEN "write" ELSE "wait"
  /\ UNCHANGED <<options, defaultProject, reqLog, target, authID, found,
                 repoData, payload, postDeploy, autoRes,
                 apiVars, repoVars, authVars, libVars>>

\* from the end of the wait loop to the sleep before the probe: the two
\* files are written, .env is touched, the image is built and the
\* application started; the first command that raises ends postDeployFix
PostBuild ==
  /\ autoPc = "write"
  /\ \E failAt \in 0..Len(BuildSteps) :
       IF failAt > 0
       THEN /\ PostCaught(SubSeq(BuildSteps, 1, failAt))
            /\ postDeploy' = "raise"
       ELSE /\ events' = events \o BuildSteps \o <<"startSettle">>
            /\ autoPc' = "verify"
            /\ UNCHANGED <<autoRes, postDeploy>>
  /\ UNCHANGED <<options, defaultProject, reqLog, target, authID, found,
                 repoData, payload, retries, lastProbe,
                 apiVars, repoVars, authVars, libVars>>

\* the probe of the site: with code 200 postDeployFix logs the success and
\* returns, and autoCreatePipeline asks for the details of the service;
\* with another code postDeployFix logs a warning and returns, and
\* autoCreatePipeline returns the response
PostVerify ==
  /\ autoPc = "verify"
  /\ \E httpCode \in HttpProbes :
       IF httpCode = "throw"
       THEN /\ PostCaught(<<"verify">>)
            /\ postDeploy' = "raise"
            /\ UNCHANGED reqLog
       ELSE IF siteLive(httpCode)
       THEN /\ events' = events \o <<"verify", "success:live">>
            /\ postDeploy' = httpCode
            /\ reqLog' = Append(reqLog, "getServerDetails")
            /\ autoPc' = "url"
            /\ UNCHANGED autoRes
       ELSE /\ events' = events \o <<"verify", "warn:http">>
            /\ postDeploy' = httpCode
            /\ autoPc' = "done"
            /\ autoRes' = [autoRes EXCEPT !.outcome = "return"]
            /\ UNCHANGED reqLog
  /\ UNCHANGED <<options, defaultProject, target, authID, found, repoData,
                 payload, retries, lastProbe, apiVars, repoVars, authVars, libVars>>

\* the details asked for after code 200 are answered: with them the URL is
\* logged as a success; an error raised, or null for the details, ends in
\* the catch; the response is returned
PostUrl ==
  /\ autoPc = "url"
  /\ \E answer \in DetailsAnswers :
       LET svcDetails == getServiceDetails(answer)
       IN IF svcDetails.outcome = "throw" \/ svcDetails.isNull
          THEN PostCaught(<<>>)
          ELSE /\ events' = Append(events, "success:complete")
               /\ autoPc' = "done"
               /\ autoRes' = [autoRes EXCEPT !.outcome = "return"]
  /\ UNCHANGED <<options, defaultProject, reqLog, target, authID, found,
                 repoData, payload, postDeploy, retries, lastProbe,
                 apiVars, repoVars, authVars, libVars>>

NextAuto ==
  \/ AutoStart
  \/ AutoTarget
  \/ AutoAuthFound
  \/ AutoOrgs
  \/ AutoRepo
  \/ AutoCreated
  \/ PostDetails
  \/ PostKeyRegistered
  \/ PostProbe
  \/ PostBuild
  \/ PostVerify
  \/ PostUrl

SpecAuto == InitAuto /\ [][NextAuto]_vars

\* ------------------------------------------------------------------------
\* postDeployFix and what autoCreatePipeline does after it, on their own
\* ------------------------------------------------------------------------

\* autoCreatePipeline in a mode other than docker, when the creation
\* response has been accepted and postDeployFix has asked for the details
\* of the service
InitDeploy ==
  /\ config = DEFAULT_CONFIG
  /\ creds \in {c \in CredsSet : c.email # Null /\ c.apiToken # Null}
  /\ now = 0
  /\ apiRes = ApiIdle
  /\ LibOff
  /\ RepoOff
  /\ AuthOff
  /\ autoPc = "details"
  /\ \E mode \in (Modes \ {"docker"}) \cup {Undefined} :
       options = optionsOf("p1", "vm1", "app", mode, <<"a", "/", "b">>, "7",
                           TRUE, NoOverrides)
  /\ defaultProject = Undefined
  /\ reqLog = <<"getCICDServices", "getGitOrgs", "getRepoByOrg",
                "createCiCdExistServer", "getServerDetails">>
  /\ target = [displayName |-> "s1", id |-> "s1", serverName |-> "", vmID |-> "vm1"]
  /\ authID = "7"
  /\ found = "uncalled"
  /\ repoData = [id |-> 1, private |-> FALSE]
  /\ payload = buildPayload(options, pidOf(options, defaultProject), authID,
                            repoData, target)
  /\ postDeploy = Null
  /\ events = <<"success:created">>
  /\ retries = 0
  /\ lastProbe = Null
  /\ \E response \in {r \in CreateAnswers : ~r.raised /\ ~createRejected(r)} :
       autoRes = [AutoRunning EXCEPT !.response = response]

NextDeploy ==
  \/ PostDetails
  \/ PostKeyRegistered
  \/ PostProbe
  \/ PostBuild
  \/ PostVerify
  \/ PostUrl

SpecDeploy == InitDeploy /\ [][NextDeploy]_vars

\* a promise that is pending resolves, and the code after the await runs
SpecDeployFair == SpecDeploy /\ WF_vars(NextDeploy)

\* ------------------------------------------------------------------------
\* The payload of autoCreatePipeline over every mode and override
\* ------------------------------------------------------------------------

\* autoCreatePipeline at the point where it builds the payload: in a git
\* mode the authorization id and the repository are known, in docker mode
\* there is no repository
InitPayload ==
  /\ config = DEFAULT_CONFIG
  /\ creds \in {c \in CredsSet : c.email # Null /\ c.apiToken # Null}
  /\ now = 0
  /\ apiRes = ApiIdle
  /\ LibOff
  /\ RepoOff
  /\ AuthOff
  /\ autoPc = "payload"
  /\ \E mode \in Modes \cup {Undefined}, over \in Overrides :
       options = optionsOf("p1", "vm1", "app", mode,
                           IF mode = "docker" THEN <<>> ELSE <<"a", "/", "b">>,
                           IF mode = "docker" THEN Undefined ELSE "7",
                           TRUE, over)
  /\ defaultProject = Undefined
  /\ reqLog = <<>>
  /\ target = [displayName |-> "s1", id |-> "s1", serverName |-> "", vmID |-> "vm1"]
  /\ authID = IF falsy(options.authId) THEN Null ELSE options.authId
  /\ found = "uncalled"
  /\ repoData \in IF falsy(gitTypeOf(modeOf(options)))
                  THEN {NoRepoData}
                  ELSE {[id |-> 1, private |-> FALSE]}
  /\ payload = NoPayload
  /\ DeployIdle
  /\ autoRes = AutoRunning

\* const payload = { ... }
PayloadBuild ==
  /\ autoPc = "payload"
  /\ payload' = buildPayload(options, pidOf(options, defaultProject), authID,
                             repoData, target)
  /\ autoPc' = "built"
  /\ UNCHANGED <<options, defaultProject, reqLog, target, authID, found,
                 repoData, deployVars, autoRes, apiVars, repoVars, authVars, libVars>>

NextPayload == PayloadBuild

SpecPayload == InitPayload /\ [][NextPayload]_vars

\* ------------------------------------------------------------------------
\* The gateway client on its own: calls of apiRequest, and time passing
\* ------------------------------------------------------------------------

InitApi ==
  /\ config \in InitConfigs
  /\ creds \in CredsSet
  /\ now = 0
  /\ apiRes = ApiIdle
  /\ LibOff
  /\ RepoOff
  /\ AuthOff
  /\ AutoOff

\* one call of apiRequest(endpoint, method, body) by a caller, run to its end
ApiRequest ==
  /\ ~apiRes.called
  /\ \E a1 \in Attempts, a2 \in Attempts :
      LET r == apiRequest(config, creds, now, <<a1, a2>>, FALSE)
      IN /\ config' = r.cfg
         /\ apiRes' = [called |-> TRUE, srv |-> <<a1, a2>>, before |-> config,
                       outcome |-> r.outcome, body |-> r.body,
                       sent |-> r.sent, trace |-> r.trace]
         /\ UNCHANGED <<creds, now, repoVars, authVars, autoVars, libVars>>

\* time passes before the call
Tick ==
  /\ ~apiRes.called
  /\ now < MaxTicks * TickMs
  /\ now' = now + TickMs
  /\ UNCHANGED <<config, creds, apiRes, repoVars, authVars, autoVars, libVars>>

NextApi == ApiRequest \/ Tick

SpecApi == InitApi /\ [][NextApi]_vars

\* ------------------------------------------------------------------------
\* Claims about findRepo
\* ------------------------------------------------------------------------

\* exactly two non-empty segments separated by one "/"
WellFormedRepo(s) ==
  LET segs == split(s, "/")
  IN Len(segs) = 2 /\ segs[1] # <<>> /\ segs[2] # <<>>

\* findRepo got the repository list as an array
ListFetched ==
  /\ repoPc = "done"
  /\ repoReqs = 1
  /\ ~repoRes.answer.raised
  /\ repoRes.answer.shape \in {"array", "envelope"}

FetchedRepos == repoRes.answer.items

SameFullName(r) == toLowerCase(r.full_name) = toLowerCase(ownerRepo)
SameName(r) == toLowerCase(r.name) = toLowerCase(repoNameOf(ownerRepo))

\* C4: a repository string that is not exactly two non-empty segments
\* separated by one "/" makes findRepo fail with the invalid-format error
\* without a repository-list request.
C4_MalformedRepoRejected ==
  (repoPc # "start" /\ ~WellFormedRepo(ownerRepo)) =>
    /\ repoRes.outcome = "throw"
    /\ repoRes.error = "InvalidFormat"
    /\ repoReqs = 0

\* C5: when one entry's full_name equals the argument, letter case ignored,
\* and a different entry matches only by name, the entry with the exact
\* owner/name match is the one returned, whatever the order of the list.
C5_ExactMatchPreferred ==
  ( /\ ListFetched
    /\ \E i, k \in DOMAIN FetchedRepos :
         /\ i # k
         /\ SameFullName(FetchedRepos[i])
         /\ SameName(FetchedRepos[k]) /\ ~SameFullName(FetchedRepos[k]) )
  => (repoRes.outcome = "return" /\ SameFullName(repoRes.repo))

\* C6: when the list holds an entry whose name equals the name segment of
\* the argument up to letter case, findRepo returns an entry of the list
\* with such a name.
C6_CaseInsensitiveMatch ==
  (ListFetched /\ \E i \in DOMAIN FetchedRepos : SameName(FetchedRepos[i]))
  => /\ repoRes.outcome = "return"
     /\ \E i \in DOMAIN FetchedRepos : repoRes.repo = FetchedRepos[i]
     /\ SameName(repoRes.repo)

\* the list {name: "A", full_name: "A/A"} resolved for the argument "a/a"
C6_Witness ==
  /\ ListFetched
  /\ ownerRepo = <<"a", "/", "a">>
  /\ FetchedRepos = <<[id |-> 1, name |-> <<"A">>, full_name |-> <<"A", "/", "A">>]>>
  /\ repoRes.outcome = "return"
  /\ repoRes.repo.id = 1

\* the names an error message lists after "Available: ", read back from
\* the message: its segments between commas, without the space after each
ListedNames(msg) ==
  IF msg = <<>> THEN <<>>
  ELSE LET segs == split(msg, ",")
       IN [i \in 1..Len(segs) |->
            IF i > 1 /\ Len(segs[i]) > 0 /\ segs[i][1] = " "
            THEN Tail(segs[i]) ELSE segs[i]]

\* C7: when no entry of the fetched list matches the argument, findRepo
\* fails with the not-found error, whose message lists the name of every
\* repository of the fetched list and nothing else.
C7_NotFoundListsAll ==
  (ListFetched /\ \A i \in DOMAIN FetchedRepos :
                    ~SameName(FetchedRepos[i]) /\ ~SameFullName(FetchedRepos[i]))
  => /\ repoRes.outcome = "throw"
     /\ repoRes.error = "NotFound"
     /\ ListedNames(repoRes.available)
          = [i \in 1..Len(FetchedRepos) |-> FetchedRepos[i].name]

\* a list of two repositories, neither of them the one asked for
C7_Witness ==
  /\ ListFetched
  /\ repoRes.error = "NotFound"
  /\ Len(FetchedRepos) = 2
  /\ repoRes.available = <<"b", ",", " ", "b">>

\* ------------------------------------------------------------------------
\* Claims about findGitAuthID
\* ------------------------------------------------------------------------

\* findGitAuthID has returned, and every service of the list has been
\* looked at or passed by
AuthSearchOver == authPc = "done" /\ authRes.returned

\* C8 as stated: whatever the lookups answer, findGitAuthID returns; when
\* exactly one listed pipeline has the kind asked for and carries an
\* authorization id, that id is returned, and when none does, null (0) is
\* returned.
C8_SoleCarrierReturned ==
  authPc = "done" =>
    /\ authRes.returned
    /\ listed.count = 0 => authRes.id = 0
    /\ listed.count = 1 => authRes.id = listed.authID

\* C8, amended: whatever the lookups answer, findGitAuthID returns; when no
\* listed pipeline has the kind asked for and carries an authorization id,
\* null (0) is returned; when exactly one does, its id is returned unless
\* the details lookup of an earlier pipeline of that kind on the same
\* service raised, which makes the search leave that service, and then
\* null is returned.
C8_SoleCarrierReturnedUnlessSkipped ==
  authPc = "done" =>
    /\ authRes.returned
    /\ listed.count = 0 => authRes.id = 0
    /\ listed.count = 1 =>
         authRes.id = IF listed.skipped THEN 0 ELSE listed.authID

\* the search is over, one listed pipeline was the only carrier, it sat on
\* the second service and its id came back
C8_Witness ==
  /\ AuthSearchOver
  /\ listed.count = 1
  /\ ~listed.skipped
  /\ listed.authID > 20
  /\ authRes.id = listed.authID

\* ------------------------------------------------------------------------
\* Claims about autoCreatePipeline
\* ------------------------------------------------------------------------

\* apiRequest has been called for the endpoint
Requested(endpoint) == \E i \in DOMAIN reqLog : reqLog[i] = endpoint

\* the call is in a git mode
GitMode == ~falsy(gitTypeOf(modeOf(options)))

\* the options of the call have a configuration error: no project id, no
\* target, no pipeline name, or in a git mode no repo or a repo that is
\* not "owner/repo"
ConfigError ==
  \/ falsy(pidOf(options, defaultProject))
  \/ falsy(options.target)
  \/ falsy(options.name)
  \/ GitMode /\ (options.repo = <<>> \/ ~WellFormedRepo(options.repo))

\* C3 as stated: a call whose options have a configuration error sends no
\* request to the remote API and ends by raising.
C3_ConfigErrorsBeforeAnyCall ==
  (autoPc # "off" /\ ConfigError) =>
    /\ reqLog = <<>>
    /\ autoPc = "done" => autoRes.outcome = "throw"

\* C9: in a git mode, when no authorization id was passed and
\* findGitAuthID returned null, autoCreatePipeline has raised and the
\* creation request was not sent; and a creation request of a git mode
\* carries the authorization id the caller passed or, when none was
\* passed, the one findGitAuthID returned, never the placeholder "0".
C9_NoGuessedAuthID ==
  /\ found = Null =>
       /\ autoPc = "done"
       /\ autoRes.outcome = "throw"
       /\ autoRes.error = "NoAuthFound"
       /\ ~Requested("createCiCdExistServer")
  /\ (GitMode /\ Requested("createCiCdExistServer")) =>
       /\ payload.authID # "0"
       /\ payload.authID = IF falsy(options.authId) THEN found ELSE options.authId

\* a git-mode call without an authorization id, for which findGitAuthID
\* returned null, has ended
C9_Witness ==
  /\ GitMode
  /\ falsy(options.authId)
  /\ found = Null
  /\ autoPc = "done"
  /\ Len(reqLog) = 2

\* C10: whatever the mode and the overrides, the payload has one ports
\* entry, with listeningPort 443, targetPort 3000 and targetIP 172.17.0.1,
\* and one exposedPorts entry, with hostPort 3000 on interface 172.17.0.1
\* and containerPort 80 in docker mode and 3000 in every other mode.
C10_FixedPortMapping ==
  payload # NoPayload =>
    /\ Len(payload.ports) = 1
    /\ payload.ports[1].listeningPort = "443"
    /\ payload.ports[1].targetPort = "3000"
    /\ payload.ports[1].targetIP = "172.17.0.1"
    /\ Len(payload.exposedPorts) = 1
    /\ payload.exposedPorts[1].hostPort = "3000"
    /\ payload.exposedPorts[1].interface = "172.17.0.1"
    /\ payload.exposedPorts[1].containerPort =
         IF modeOf(options) = "docker" THEN "80" ELSE "3000"

\* the payload of a full-stack mode is built with every override passed
C10_Witness ==
  /\ autoPc = "built"
  /\ payload # NoPayload
  /\ options.mode = "gitlab-fullstack"
  /\ \A f \in {"branch", "buildDir", "nodeVersion", "framework", "buildCmd",
               "runCmd", "installCmd"} : options[f] = "custom"
  /\ payload.configData.buildCmd = "custom"

\* the table of defaults by mode: the static row for github and gitlab
\* (and for a mode that is missing or unknown, which is taken for github),
\* the full-stack row, and the docker row
ModeDefaults(mode) ==
  IF mode = "docker"
  THEN [runtime |-> "", buildDir |-> "/", framework |-> "", buildCmd |-> "",
        runCmd |-> "", installCmd |-> "", version |-> "", port |-> "80"]
  ELSE IF mode \in {"github-fullstack", "gitlab-fullstack"}
  THEN [runtime |-> "node", buildDir |-> "/", framework |-> "No Framework",
        buildCmd |-> "npm run build", runCmd |-> "npm start",
        installCmd |-> "npm install", version |-> "20", port |-> "3000"]
  ELSE [runtime |-> "staticSPA", buildDir |-> "/dist", framework |-> "Vite.js",
        buildCmd |-> "npm run build", runCmd |-> "",
        installCmd |-> "npm install", version |-> "20", port |-> "3000"]

\* the fields of the options a caller may override, and for those that go
\* to configData the field they go to
OverridableFields ==
  {"branch", "buildCmd", "runCmd", "installCmd", "buildDir", "framework",
   "nodeVersion"}

ConfigField(f) == IF f = "nodeVersion" THEN "version" ELSE f

\* what the payload carries for an overridable field
Carried(f) ==
  IF f = "branch" THEN payload.gitData.branch
  ELSE payload.configData[ConfigField(f)]

\* the default of an overridable field in the mode of the call
DefaultOf(f) ==
  IF f = "branch" THEN "main"
  ELSE ModeDefaults(modeOf(options))[ConfigField(f)]

\* the caller passed no override
NothingOverridden == \A f \in OverridableFields : options[f] = Undefined

\* C11: with no overrides, in each of the five modes, the runtime, the
\* build directory, the build, run and install commands of configData and
\* the container port of exposedPorts are those of the mode table.
C11_ModeTable ==
  (payload # NoPayload /\ NothingOverridden /\ options.mode \in SupportedModes) =>
    LET row == ModeDefaults(options.mode)
    IN /\ payload.configData.runtime = row.runtime
       /\ payload.configData.buildDir = row.buildDir
       /\ payload.configData.buildCmd = row.buildCmd
       /\ payload.configData.runCmd = row.runCmd
       /\ payload.configData.installCmd = row.installCmd
       /\ payload.exposedPorts[1].containerPort = row.port

\* the payload of a full-stack mode is built without overrides
C11_Witness ==
  /\ autoPc = "built"
  /\ NothingOverridden
  /\ options.mode = "github-fullstack"
  /\ payload.configData.runCmd = "npm start"

\* C12 as stated: in every mode, for each overridable field, the payload
\* carries the value the caller passed, and the default of the mode when
\* the caller passed none.
C12_OverrideWins ==
  payload # NoPayload =>
    \A f \in OverridableFields :
      Carried(f) = IF options[f] # Undefined THEN options[f] ELSE DefaultOf(f)

\* C12, amended: for the build, run and install commands, the build
\* directory, the framework and the runtime version in every mode, and
\* for the branch in the git modes, the payload carries the value the
\* caller passed when that value is not the empty string, and the default
\* of the mode when the caller passed none or the empty string; in docker
\* mode the branch of the payload is "main" whatever the caller passed.
C12_NonEmptyOverrideWins ==
  payload # NoPayload =>
    \A f \in OverridableFields :
      Carried(f) = IF f = "branch" /\ modeOf(options) = "docker" THEN "main"
                   ELSE IF options[f] \in {Undefined, ""} THEN DefaultOf(f)
                   ELSE options[f]

\* a payload of a git mode is built with a branch of the caller, an empty
\* run command, and no build command
C12_Witness ==
  /\ autoPc = "built"
  /\ options.mode = "gitlab-fullstack"
  /\ options.branch = "custom" /\ payload.gitData.branch = "custom"
  /\ options.runCmd = "" /\ payload.configData.runCmd = "npm start"
  /\ options.buildCmd = Undefined /\ payload.configData.buildCmd = "npm run build"

\* the creation request has been sent
Submitted == Requested("createCiCdExistServer")

\* the four git modes
GitModes == {"github", "github-fullstack", "gitlab", "gitlab-fullstack"}

\* C13: in a git mode with a repo "owner/name", the payload submitted has
\* the provider kind as CICDMode, https://github.com/owner/name (gitlab.com
\* in the gitlab modes) as repoUrl, that URL followed by .git as cloneUrl,
\* the id of the repository findRepo returned as repoID, and
\* isNeedToCreateRepo false; in mode github without overrides the runtime
\* is staticSPA and the build directory /dist.
C13_GitPayload ==
  (Submitted /\ modeOf(options) \in GitModes /\ WellFormedRepo(options.repo)) =>
    LET gitlab == modeOf(options) \in {"gitlab", "gitlab-fullstack"}
        segs == split(options.repo, "/")
        url == <<"https://", IF gitlab THEN "gitlab.com" ELSE "github.com", "/">>
               \o segs[1] \o <<"/">> \o segs[2]
    IN /\ payload.CICDMode = IF gitlab THEN "GITLAB" ELSE "GITHUB"
       /\ payload.gitData.repoUrl = url
       /\ payload.gitData.cloneUrl = url \o <<".git">>
       /\ repoData.id > 0
       /\ payload.gitData.repoID = String(repoData.id)
       /\ payload.isNeedToCreateRepo = FALSE
       /\ modeOf(options) = "github" =>
            /\ payload.configData.runtime = "staticSPA"
            /\ payload.configData.buildDir = "/dist"

\* a gitlab payload for the repo A/b has been submitted
C13_Witness ==
  /\ Submitted
  /\ options.mode = "gitlab"
  /\ options.repo = <<"A", "/", "b">>
  /\ payload.CICDMode = "GITLAB"

\* C14 as stated: in docker mode with no repo, the payload submitted has
\* isNeedToCreateRepo true, an empty gitData.repo, the empty string in
\* every field of configData, and container port 80.
C14_DockerPayloadEmpty ==
  (Submitted /\ modeOf(options) = "docker" /\ options.repo = <<>>) =>
    /\ payload.isNeedToCreateRepo = TRUE
    /\ payload.gitData.repo = <<>>
    /\ \A f \in DOMAIN payload.configData : payload.configData[f] = ""
    /\ payload.exposedPorts[1].containerPort = "80"

\* C14, amended: in docker mode with no repo and no overrides, the payload
\* submitted has isNeedToCreateRepo true, an empty gitData.repo, container
\* port 80, and in configData "/" as buildDir and as rootDir and the empty
\* string in every other field.
C14_DockerPayload ==
  (Submitted /\ modeOf(options) = "docker" /\ options.repo = <<>>) =>
    /\ payload.isNeedToCreateRepo = TRUE
    /\ payload.gitData.repo = <<>>
    /\ \A f \in DOMAIN payload.configData :
         payload.configData[f] = IF f \in {"buildDir", "rootDir"} THEN "/" ELSE ""
    /\ payload.exposedPorts[1].containerPort = "80"

\* a docker payload without a repo has been submitted
C14_Witness ==
  /\ Submitted
  /\ options.mode = "docker"
  /\ options.repo = <<>>
  /\ payload.CICDMode = "DOCKER"

\* ------------------------------------------------------------------------
\* Claims about the creation response and the post-deploy steps
\* ------------------------------------------------------------------------

\* the event is among those logged or done since the creation response
Happened(e) == \E i \in DOMAIN events : events[i] = e

\* how many times it is
Times(e) == Cardinality({i \in DOMAIN events : events[i] = e})

\* the creation request has been answered with a response
CreateAnswered == autoRes.response # NoResponse /\ ~autoRes.response.raised

\* that response has status OK or carries a providerServerID
SuccessIndicated ==
  autoRes.response.status = "OK" \/ autoRes.response.providerServerID # Undefined

\* C15: the submission succeeds exactly when the response to the creation
\* request has status OK or carries a providerServerID; after any other
\* response autoCreatePipeline has raised, with the message of the
\* response when it has one, and nothing of post-deploy has happened: no
\* request after the creation request, no key, no SSH command, no file.
C15_SubmissionOutcome ==
  CreateAnswered =>
    IF SuccessIndicated
    THEN autoRes.outcome # "throw"
    ELSE /\ autoPc = "done"
         /\ autoRes.outcome = "throw"
         /\ autoRes.response.message # Undefined =>
              autoRes.error = autoRes.response.message
         /\ events = <<>>
         /\ reqLog[Len(reqLog)] = "createCiCdExistServer"

\* a response without status OK and without providerServerID, with a
\* message, has made a git-mode call raise
C15_Witness ==
  /\ CreateAnswered
  /\ ~SuccessIndicated
  /\ autoRes.error = "quota exceeded"
  /\ GitMode

\* the step of the flow an event belongs to: 0 for the submission, 7 for
\* what is logged once the flow is over
EnsureEvents == {"keygen", "readKey", "registerKey", "keySettle"}
WaitEvents == {"probe", "sleep", "warn:notReady"}

LaterRank(e) ==
  IF e = "success:created" THEN 0
  ELSE IF e \in {"writeDockerfile", "writeCompose"} THEN 3
  ELSE IF e \in {"touchEnv", "build"} THEN 4
  ELSE IF e \in {"up", "startSettle"} THEN 5
  ELSE IF e \in {"verify", "success:live", "warn:http"} THEN 6
  ELSE 7

\* waiting for initialization before ensuring SSH access
StatedRank(e) ==
  IF e \in WaitEvents THEN 1 ELSE IF e \in EnsureEvents THEN 2 ELSE LaterRank(e)

\* ensuring SSH access before waiting for initialization
ActualRank(e) ==
  IF e \in EnsureEvents THEN 1 ELSE IF e \in WaitEvents THEN 2 ELSE LaterRank(e)

\* the requests up to the creation request, in the order of the flow:
\* the target, then in a git mode the authorization search when no id
\* was passed, the accounts and the repository, then the submission
RequestsInOrder ==
  LET n == CHOOSE i \in DOMAIN reqLog : reqLog[i] = "createCiCdExistServer"
      resolved == IF GitMode THEN <<"getGitOrgs", "getRepoByOrg">> ELSE <<>>
      search == IF found = "uncalled" THEN <<>> ELSE <<"getCICDServices">>
  IN /\ SubSeq(reqLog, 1, n) =
          <<"getCICDServices">> \o search \o resolved \o <<"createCiCdExistServer">>
     /\ \A i \in DOMAIN reqLog :
          reqLog[i] \in {"getServerDetails", "DoActionOnServer"} => i > n

\* post-deploy has been reached
PostDeployReached == Requested("getServerDetails")

\* C16 as stated: in a run that reaches post-deploy the steps come in the
\* order target, authorization, organization, repository, submission,
\* waiting for initialization, ensuring SSH access, writing, building,
\* starting, verifying.
C16_StatedOrder ==
  /\ PostDeployReached => GitMode /\ RequestsInOrder
  /\ \A i \in 1..(Len(events) - 1) :
       StatedRank(events[i]) <= StatedRank(events[i + 1])

\* C16, amended: in a run that reaches post-deploy the steps come in the
\* order target, authorization, organization, repository, submission,
\* ensuring SSH access, waiting for initialization, writing, building,
\* starting, verifying: the key is registered and its delay is over
\* before the first probe of the wait loop, and no step starts before the
\* one before it has ended.
C16_ActualOrder ==
  /\ PostDeployReached => GitMode /\ RequestsInOrder
  /\ \A i \in 1..(Len(events) - 1) :
       ActualRank(events[i]) <= ActualRank(events[i + 1])

\* a run with an authorization search and a key generation has gone
\* through every step
C16_Witness ==
  /\ autoPc = "done"
  /\ found = "11"
  /\ Happened("keygen")
  /\ Happened("probe")
  /\ Happened("success:complete")

\* the wait loop is over
WaitLoopLeft == autoPc \in {"write", "verify", "url"}

\* the wait loop as C17 has it, state by state: while it runs it has made
\* fewer than 12 probes and none has found the file; when it is left it
\* has made at most 12, and either the last one, and no other, found the
\* file and there is no warning, or all 12 failed and the warning is
\* logged
WaitLoopBounded ==
  /\ autoPc = "wait" =>
       /\ retries \in 1..12
       /\ Times("probe") = 12 - retries
       /\ lastProbe # "OK"
       /\ ~Happened("warn:notReady")
  /\ WaitLoopLeft =>
       /\ Times("probe") \in 1..12
       /\ Times("sleep") = IF lastProbe = "OK" THEN Times("probe") - 1 ELSE 12
       /\ Happened("warn:notReady") <=> (Times("probe") = 12 /\ lastProbe # "OK")

\* C17: the wait loop ends: it makes at most 12 probes, with one sleep
\* after each that fails, it stops at the first probe that finds the
\* file, no result of a probe makes it raise, from it the run goes on to
\* writing the files in every case, and the warning is logged exactly
\* when all 12 probes have failed.
C17_WaitLoopEnds ==
  /\ []WaitLoopBounded
  /\ [][autoPc = "wait" => autoPc' \in {"wait", "write"}]_vars
  /\ (autoPc = "wait") ~> (autoPc = "write")

\* the loop has been left after 12 failed probes, with the warning
C17_Witness ==
  /\ autoPc = "write"
  /\ Times("probe") = 12
  /\ lastProbe = "throw"
  /\ Happened("warn:notReady")

\* the creation response has been accepted
Accepted == CreateAnswered /\ SuccessIndicated

\* C18: once the creation response is accepted autoCreatePipeline does not
\* raise: an error raised in a post-deploy step ends in the warning of
\* the catch, the run ends by returning, and the response it holds stays
\* the one of the creation request.
C18_PostDeployCaught ==
  /\ [](Accepted =>
          /\ autoRes.outcome # "throw"
          /\ autoPc = "done" => autoRes.outcome = "return"
          /\ postDeploy = "raise" =>
               autoPc = "done" /\ Happened("warn:postDeployFailed"))
  /\ [][Accepted => autoRes'.response = autoRes.response]_vars

\* a build that raised has ended in the warning and the return of the
\* response
C18_Witness ==
  /\ Accepted
  /\ autoPc = "done"
  /\ postDeploy = "raise"
  /\ Happened("build")
  /\ events[Len(events)] = "warn:postDeployFailed"
  /\ autoRes.outcome = "return"

\* C19 as stated: when the probe of the site gives 200, the run ends with
\* the success reported and without a warning of the catch.
C19_LiveMeansSucceeded ==
  (postDeploy = "200" /\ autoPc = "done") =>
    /\ Happened("success:live")
    /\ Happened("success:complete")
    /\ ~Happened("warn:postDeployFailed")

\* C20: when the probe of the site gives a code other than 200, the
\* warning about the code is logged, nothing is raised, neither success
\* message of the deployment is logged, and autoCreatePipeline returns the
\* response of the creation request. (The message that the pipeline was
\* created is logged before post-deploy in every run.)
C20_NotLiveMeansDegraded ==
  (postDeploy \notin {Null, "raise", "200"}) =>
    /\ autoPc = "done"
    /\ autoRes.outcome = "return"
    /\ Accepted
    /\ Happened("warn:http")
    /\ ~Happened("warn:postDeployFailed")
    /\ ~Happened("success:live")
    /\ ~Happened("success:complete")

\* the probe gave 503 and the run has ended
C20_Witness ==
  /\ postDeploy = "503"
  /\ autoPc = "done"
  /\ events[Len(events)] = "warn:http"

\* ------------------------------------------------------------------------
\* Claims about the gateway client
\* ------------------------------------------------------------------------

\* how often event e occurs in a trace
Count(seq, e) == Cardinality({i \in DOMAIN seq : seq[i] = e})

\* the position of the first request to the endpoint in a trace
FirstFetch(trace) == CHOOSE i \in DOMAIN trace :
                       trace[i] = "fetch" /\ \A k \in 1..(i - 1) : trace[k] # "fetch"

\* an authentication failure as the claims describe it: HTTP 401, or a body
\* with status error and a message containing auth, or code InvalidToken, or
\* a message containing invalid token
AuthFailure(resp) ==
  /\ resp.net
  /\ \/ resp.status = 401
     \/ /\ resp.json
        /\ \/ /\ resp.body.status = "error"
              /\ includes(toLowerCase(resp.body.message), StrAuth)
           \/ resp.body.code = "InvalidToken"
           \/ includes(toLowerCase(resp.body.message), StrInvalidToken)

\* the call got an answer to its first request and it was an auth failure
FirstFailed == apiRes.called /\ Len(apiRes.sent) >= 1 /\ AuthFailure(apiRes.srv[1].resp)

\* the fresh authentication of the retry got a JWT
ReauthSucceeded ==
  LET a == apiRes.srv[2].auth IN a.net /\ a.status = "OK" /\ a.jwt # Null

\* C1 as stated: when the first response is an authentication failure, the
\* cached JWT is cleared, one fresh authentication is performed and the same
\* request is re-sent exactly once; no call sends more than two requests.
C1_AuthRetryAlwaysResends ==
  /\ Len(apiRes.sent) <= 2
  /\ FirstFailed =>
       /\ Count(apiRes.trace, "clearJwt") = 1
       /\ Len(apiRes.sent) = 2

\* C1 amended: when the first response is an authentication failure, the
\* cached JWT is cleared once and one fresh authentication is attempted
\* right after; if it yields a JWT the same request is re-sent exactly once,
\* with that JWT, and if it does not the call raises without re-sending; no
\* call sends more than two requests.
C1_AuthRetryOnce ==
  /\ Len(apiRes.sent) <= 2
  /\ FirstFailed =>
       LET k == FirstFetch(apiRes.trace)
           rest == SubSeq(apiRes.trace, k + 1, Len(apiRes.trace))
       IN /\ Count(apiRes.trace, "clearJwt") = 1
          /\ Len(rest) >= 2 /\ rest[1] = "clearJwt" /\ rest[2] = "authenticate"
          /\ Count(rest, "authenticate") = 1
          /\ IF ReauthSucceeded
             THEN /\ Len(apiRes.sent) = 2
                  /\ apiRes.sent[2] = apiRes.srv[2].auth.jwt
                  /\ config.jwt = apiRes.srv[2].auth.jwt
             ELSE /\ Len(apiRes.sent) = 1
                  /\ apiRes.outcome = "throw"
                  /\ config.jwt = Null

\* a call whose first answer is an auth-error payload and that re-sent the
\* request with the JWT of a fresh authentication
C1_Witness ==
  /\ FirstFailed
  /\ apiRes.srv[1].resp.status = 200
  /\ apiRes.before.jwt = "jwtA"
  /\ apiRes.sent = <<"jwtA", "jwtB">>

\* the retried request was sent and its answer is an auth failure too
SecondFailed ==
  apiRes.called /\ Len(apiRes.sent) = 2 /\ AuthFailure(apiRes.srv[2].resp)

MaxCalls == 3

\* the services the calls are for
SshVms == {"vm1", "vm2"}

\* ~/.ssh before the first call: no key, a key pair (key 1), a private key
\* whose .pub is missing, a .pub left without its private key
InitKeyFiles ==
  { [priv |-> 0, pub |-> 0], [priv |-> 1, pub |-> 1],
    [priv |-> 1, pub |-> 0], [priv |-> 0, pub |-> 1] }

\* what a call has done so far
SshEntry(ev, vm, key) == [ev |-> ev, vm |-> vm, key |-> key]

SshCount(ev) == Cardinality({i \in DOMAIN sshLog : sshLog[i].ev = ev})

\* !fs.existsSync(sshKeyPath)
keyMissing(files) == files.priv = 0

\* ssh-keygen -f sshKeyPath: a new key pair, written to both files; the
\* keys generated are numbered from 2
keygen(n) == [priv |-> n + 2, pub |-> n + 2]

\* the gateway client is configured and has not been called
ApiOff ==
  /\ config = DEFAULT_CONFIG
  /\ creds = [email |-> "user@example.com", apiToken |-> "token"]
  /\ now = 0
  /\ apiRes = ApiIdle

InitSsh ==
  /\ sshPc = "idle"
  /\ keyFiles \in InitKeyFiles
  /\ sshLog = <<>>
  /\ sshVm = Null
  /\ RepoOff
  /\ AuthOff
  /\ AutoOff
  /\ ApiOff
  /\ ResizeOff /\ DelOff /\ CfgOff /\ FwOff /\ WaitOff

SshFrame ==
  UNCHANGED <<apiVars, repoVars, authVars, autoVars, resizeVars, delVars,
              cfgVars, fwVars, waitVars>>

\* ensureSSHAccess(vmID) up to its first await: the existence test, the
\* key generation when the private key is missing, the read of the public
\* key, and the request that registers it
SshCall ==
  /\ sshPc = "idle"
  /\ SshCount("call") < MaxCalls
  /\ \E vm \in SshVms, keygenFails \in BOOLEAN :
      LET called == Append(sshLog, SshEntry("call", vm, 0))
          files == IF keyMissing(keyFiles) /\ ~keygenFails
                   THEN keygen(SshCount("keygen")) ELSE keyFiles
          generated == IF keyMissing(keyFiles) /\ ~keygenFails
                       THEN Append(called, SshEntry("keygen", vm, files.pub))
                       ELSE called
      IN /\ sshVm' = vm
         /\ keyFiles' = files
         /\ IF (keyMissing(keyFiles) /\ keygenFails) \/ files.pub = 0
            THEN /\ sshLog' = Append(generated, SshEntry("raise", vm, 0))
                 /\ sshPc' = "idle"
            ELSE /\ sshLog' = Append(generated, SshEntry("register", vm, files.pub))
                 /\ sshPc' = "register"
  /\ SshFrame

\* the registration request is answered or raises
SshRegistered ==
  /\ sshPc = "register"
  /\ \E raised \in BOOLEAN :
      IF raised
      THEN /\ sshLog' = Append(sshLog, SshEntry("raise", sshVm, 0))
           /\ sshPc' = "idle"
      ELSE /\ sshLog' = sshLog
           /\ sshPc' = "settle"
  /\ UNCHANGED <<keyFiles, sshVm>>
  /\ SshFrame

\* the delay for the propagation of the key is over: the call returns
SshSettled ==
  /\ sshPc = "settle"
  /\ sshLog' = Append(sshLog, SshEntry("return", sshVm, keyFiles.pub))
  /\ sshPc' = "idle"
  /\ UNCHANGED <<keyFiles, sshVm>>
  /\ SshFrame

NextSsh == SshCall \/ SshRegistered \/ SshSettled

SpecSsh == InitSsh /\ [][NextSsh]_vars

\* C21 as stated: over calls in succession in one local environment, at
\* most one key is generated, and no key is registered twice for the same
\* service: a call that finds the key of an earlier call neither generates
\* a key nor registers that key again.
C21_OneGenerationOneRegistration ==
  /\ SshCount("keygen") <= 1
  /\ \A i, j \in DOMAIN sshLog :
       (/\ sshLog[i].ev = "register"
        /\ sshLog[j].ev = "register"
        /\ sshLog[i].vm = sshLog[j].vm
        /\ sshLog[i].key = sshLog[j].key) => i = j

\* ------------------------------------------------------------------------
\* Claims about the use of the SSH key in post-deploy
\* ------------------------------------------------------------------------

\* the steps that run an SSH command on the service or write a file to it
RemoteSteps ==
  {"probe", "writeDockerfile", "writeCompose", "touchEnv", "build", "up",
   "verify"}

\* C22: in a post-deploy run every SSH command and every remote file write
\* comes after the request that registers the key has returned and the
\* delay that follows it is over.
C22_KeySettledBeforeSsh ==
  \A i \in DOMAIN events :
    events[i] \in RemoteSteps =>
      \E k, j \in 1..(i - 1) :
        k < j /\ events[k] = "registerKey" /\ events[j] = "keySettle"

\* the first probe of the wait loop has run
C22_Witness ==
  /\ Times("probe") = 1
  /\ Happened("keySettle")
  /\ events[Len(events)] = "probe"

\* ------------------------------------------------------------------------
\* resizeServer (lib/actions.js): size names, the downgrade check
\* ------------------------------------------------------------------------

Digits == <<"0", "1", "2", "3", "4", "5", "6", "7", "8", "9">>

isDigit(c) == \E d \in DOMAIN Digits : Digits[d] = c

digitValue(c) == (CHOOSE d \in DOMAIN Digits : Digits[d] = c) - 1

\* parseInt of a string of digits
RECURSIVE parseInt(_)
parseInt(ds) ==
  IF ds = <<>> THEN 0
  ELSE 10 * parseInt(SubSeq(ds, 1, Len(ds) - 1)) + digitValue(ds[Len(ds)])

\* one character of String.prototype.toUpperCase
UpperChar(c) ==
  IF \E i \in 1..Len(LowerChars) : LowerChars[i] = c
  THEN UpperChars[CHOOSE i \in 1..Len(LowerChars) : LowerChars[i] = c]
  ELSE c

\* String.prototype.toUpperCase
toUpperCase(s) == [i \in 1..Len(s) |-> UpperChar(s[i])]

startsWith(s, prefix) ==
  Len(prefix) <= Len(s) /\ SubSeq(s, 1, Len(prefix)) = prefix

endsWith(s, suffix) ==
  Len(suffix) <= Len(s) /\ SubSeq(s, Len(s) - Len(suffix) + 1, Len(s)) = suffix

\* the last digit of the run of digits that starts at i
runEnd(s, i) ==
  CHOOSE j \in i..Len(s) :
    /\ \A k \in i..j : isDigit(s[k])
    /\ j = Len(s) \/ ~isDigit(s[j + 1])

\* where the regular expression (\d+)X matches first, X one of letters:
\* the start of the first run of digits that one of the letters follows;
\* 0 when there is none
firstMatch(s, letters) ==
  LET starts == { i \in 1..Len(s) :
                    /\ isDigit(s[i])
                    /\ i = 1 \/ ~isDigit(s[i - 1])
                    /\ runEnd(s, i) < Len(s)
                    /\ s[runEnd(s, i) + 1] \in letters }
  IN IF starts = {} THEN 0
     ELSE CHOOSE i \in starts : \A k \in starts : i <= k

\* sizeName.match(/(\d+)X/i) ? parseInt(match[1]) : 0
sizeNumber(s, letters) ==
  IF firstMatch(s, letters) = 0 THEN 0
  ELSE parseInt(SubSeq(s, firstMatch(s, letters), runEnd(s, firstMatch(s, letters))))

\* parseSizeSpec
parseSizeSpec(sizeName) ==
  [cpu |-> sizeNumber(sizeName, {"C", "c"}),
   ram |-> sizeNumber(sizeName, {"G", "g"})]

\* isDowngrade
isDowngrade(currentType, newType) ==
  LET current == parseSizeSpec(currentType)
      newSpec == parseSizeSpec(newType)
  IN IF current.cpu = 0 \/ newSpec.cpu = 0 THEN FALSE
     ELSE newSpec.cpu < current.cpu \/ newSpec.ram < current.ram

\* DOWNGRADE_SUPPORTED_PROVIDERS
DOWNGRADE_SUPPORTED_PROVIDERS ==
  { <<"n","e","t","c","u","p">>, <<"a","w","s">>, <<"a","z","u","r","e">>,
    <<"s","c","a","l","e","w","a","y">> }

\* a || b for strings, undefined and '' both being <<>>
OrStr(a, b) == IF a = <<>> THEN b ELSE a

StrUnknown == <<"u","n","k","n","o","w","n">>
StrNetcup == <<"n","e","t","c","u","p">>

\* the sizes of the catalogue of a provider: title, vCPU and ramGB
SizeCatalogue ==
  << [title |-> <<"S","-","1","C","-","2","G">>, vCPU |-> 1, ramGB |-> 2],
     [title |-> <<"M","-","2","C","-","4","G">>, vCPU |-> 2, ramGB |-> 4],
     [title |-> <<"M","-","2","C","-","8","G">>, vCPU |-> 2, ramGB |-> 8],
     [title |-> <<"L","-","4","C","-","8","G">>, vCPU |-> 4, ramGB |-> 8],
     [title |-> <<"L","-","4","C","-","8","G","-","C","P","X">>, vCPU |-> 4, ramGB |-> 8],
     [title |-> <<"L","-","1","6","C","-","4","G">>, vCPU |-> 16, ramGB |-> 4] >>

\* what filterSizes gives for the provider and region: an error raised, or
\* the catalogue or a part of it
SizeAnswers ==
  { [raised |-> TRUE, sizes |-> <<>>],
    [raised |-> FALSE, sizes |-> SizeCatalogue],
    [raised |-> FALSE, sizes |-> SubSeq(SizeCatalogue, 1, 4)] }

\* currentType.replace(/^.*?(\d+G)/, ''): what follows the first run of
\* digits that a G follows; the whole string when there is none
suffixOf(currentType) ==
  IF firstMatch(currentType, {"G"}) = 0 THEN currentType
  ELSE SubSeq(currentType, runEnd(currentType, firstMatch(currentType, {"G"})) + 2,
              Len(currentType))

\* validateSizeForProvider over the sizes of the provider and region: the
\* title it returns, <<>> when it raises
validateSizeForProvider(newType, sizes, currentType) ==
  LET exact == { i \in DOMAIN sizes :
                   toLowerCase(sizes[i].title) = toLowerCase(newType) }
      candidates == { i \in DOMAIN sizes :
                        startsWith(toUpperCase(sizes[i].title), toUpperCase(newType)) }
      currentSuffix == toUpperCase(suffixOf(currentType))
      sameFamily == { i \in candidates :
                        endsWith(toUpperCase(sizes[i].title), currentSuffix) }
      first(S) == CHOOSE i \in S : \A k \in S : i <= k
  IN IF exact # {} THEN sizes[first(exact)].title
     ELSE IF Cardinality(candidates) = 1 THEN sizes[first(candidates)].title
     ELSE IF candidates # {} /\ currentSuffix # <<>> /\ sameFamily # {}
     THEN sizes[first(sameFamily)].title
     ELSE <<>>

\* the providers of the services
ProviderNames ==
  { StrNetcup, <<"A","W","S">>, <<"h","e","t","z","n","e","r">>,
    <<"H","e","t","z","n","e","r">> }

\* the service as it is: its size, an entry of the catalogue, and its
\* provider; and what its details give: serverType or none, the provider
\* under provider, under providerName or not at all
ResizeServices ==
  [size : DOMAIN SizeCatalogue, provider : ProviderNames,
   typeGiven : BOOLEAN, providerField : {"provider", "providerName", "none"}]

\* the sizes asked for: none, titles of the catalogue, one in lower case,
\* a prefix of two titles, one that is not in the catalogue
NewTypes ==
  { <<>>, <<"S","-","1","C","-","2","G">>, <<"m","-","2","c","-","4","g">>,
    <<"M","-","2","C","-","8","G">>, <<"L","-","4","C">>,
    <<"L","-","1","6","C","-","4","G">>, <<"X","-","8","C">> }

\* what the details of the service give resizeServer
serverTypeOf(svc) ==
  IF svc.typeGiven THEN SizeCatalogue[svc.size].title ELSE <<>>

providerNameOf(svc, optProvider) ==
  OrStr(IF svc.providerField = "none" THEN <<>> ELSE svc.provider,
        OrStr(optProvider, StrNetcup))

currentTypeOf(svc) == OrStr(serverTypeOf(svc), StrUnknown)

ResizeReq(action, newType, providerName) ==
  [action |-> action, newType |-> newType, providerName |-> providerName]

ResizeEnd(outcome, error, validated) ==
  [outcome |-> outcome, error |-> error, validated |-> validated]

ResizeRunning == ResizeEnd(Null, Null, <<>>)

InitResize ==
  /\ resizePc = "start"
  /\ \E newType \in NewTypes, svc \in ResizeServices,
        optProvider \in {<<>>, <<"a","w","s">>} :
       resizeIn = [newType |-> newType, service |-> svc, provider |-> optProvider]
  /\ resizeReqs = <<>>
  /\ resizeRes = ResizeRunning
  /\ ApiOff
  /\ RepoOff
  /\ AuthOff
  /\ AutoOff
  /\ SshOff /\ DelOff /\ CfgOff /\ FwOff /\ WaitOff

ResizeFrame ==
  UNCHANGED <<resizeIn, apiVars, repoVars, authVars, autoVars, sshVars, delVars,
              cfgVars, fwVars, waitVars>>

\* resizeServer(vmID, newType, options) up to its first await: without a
\* new type it raises, otherwise it asks for the details of the service
ResizeCall ==
  /\ resizePc = "start"
  /\ IF resizeIn.newType = <<>>
     THEN /\ resizePc' = "done"
          /\ resizeRes' = ResizeEnd("throw", "TypeRequired", <<>>)
          /\ UNCHANGED resizeReqs
     ELSE /\ resizePc' = "details"
          /\ resizeReqs' = Append(resizeReqs, ResizeReq("getServerDetails", <<>>, <<>>))
          /\ UNCHANGED resizeRes
  /\ ResizeFrame

\* the details are answered, or the request raises; with the details
\* validateSizeForProvider asks for the sizes of the provider
ResizeDetails ==
  /\ resizePc = "details"
  /\ \E raised \in BOOLEAN :
       IF raised
       THEN /\ resizePc' = "done"
            /\ resizeRes' = ResizeEnd("throw", "Remote", <<>>)
            /\ UNCHANGED resizeReqs
       ELSE /\ resizePc' = "sizes"
            /\ resizeReqs' = Append(resizeReqs, ResizeReq("getSizes", <<>>, <<>>))
            /\ UNCHANGED resizeRes
  /\ ResizeFrame

\* the sizes are answered: the size is validated, a service that has it
\* already ends the call, a downgrade on a provider that does not support
\* it raises, and otherwise the changeType action is sent
ResizeValidated ==
  /\ resizePc = "sizes"
  /\ \E answer \in SizeAnswers :
       LET svc == resizeIn.service
           providerName == providerNameOf(svc, resizeIn.provider)
           currentType == currentTypeOf(svc)
           validatedType ==
             validateSizeForProvider(resizeIn.newType, answer.sizes, currentType)
       IN IF answer.raised
          THEN /\ resizePc' = "done"
               /\ resizeRes' = ResizeEnd("throw", "Remote", <<>>)
               /\ UNCHANGED resizeReqs
          ELSE IF validatedType = <<>>
          THEN /\ resizePc' = "done"
               /\ resizeRes' = ResizeEnd("throw", "SizeNotAvailable", <<>>)
               /\ UNCHANGED resizeReqs
          ELSE IF currentType = validatedType
          THEN /\ resizePc' = "done"
               /\ resizeRes' = ResizeEnd("return", Null, validatedType)
               /\ UNCHANGED resizeReqs
          ELSE IF /\ isDowngrade(currentType, validatedType)
                  /\ toLowerCase(providerName) \notin DOWNGRADE_SUPPORTED_PROVIDERS
          THEN /\ resizePc' = "done"
               /\ resizeRes' = ResizeEnd("throw", "DowngradeNotSupported", validatedType)
               /\ UNCHANGED resizeReqs
          ELSE /\ resizePc' = "change"
               /\ resizeRes' = ResizeEnd(Null, Null, validatedType)
               /\ resizeReqs' =
                    Append(resizeReqs, ResizeReq("changeType", validatedType, providerName))
  /\ ResizeFrame

\* the changeType action is answered or raises; once answered the details
\* are asked for again after the delay
ResizeChanged ==
  /\ resizePc = "change"
  /\ \E raised \in BOOLEAN :
       IF raised
       THEN /\ resizePc' = "done"
            /\ resizeRes' = [resizeRes EXCEPT !.outcome = "throw", !.error = "Remote"]
            /\ UNCHANGED resizeReqs
       ELSE /\ resizePc' = "verify"
            /\ resizeReqs' = Append(resizeReqs, ResizeReq("getServerDetails", <<>>, <<>>))
            /\ UNCHANGED resizeRes
  /\ ResizeFrame

\* the details after the change: the new size, the old size with the
\* service off, which raises, or the old size with the service running
ResizeVerified ==
  /\ resizePc = "verify"
  /\ \E updated \in {"raised", "resized", "off", "unchanged"} :
       /\ resizePc' = "done"
       /\ resizeRes' =
            IF updated = "raised"
            THEN [resizeRes EXCEPT !.outcome = "throw", !.error = "Remote"]
            ELSE IF updated = "off"
            THEN [resizeRes EXCEPT !.outcome = "throw", !.error = "ResizeFailed"]
            ELSE [resizeRes EXCEPT !.outcome = "return"]
  /\ UNCHANGED resizeReqs
  /\ ResizeFrame

NextResize ==
  ResizeCall \/ ResizeDetails \/ ResizeValidated \/ ResizeChanged \/ ResizeVerified

SpecResize == InitResize /\ [][NextResize]_vars

\* the changeType action has been sent
ChangeTypeSent == \E i \in DOMAIN resizeReqs : resizeReqs[i].action = "changeType"

\* the size of the catalogue with that title
sizeTitled(title) ==
  SizeCatalogue[CHOOSE i \in DOMAIN SizeCatalogue : SizeCatalogue[i].title = title]

\* the size sent has fewer CPUs or less RAM than the service has
SentDowngrade ==
  LET sent == sizeTitled(resizeRes.validated)
      current == SizeCatalogue[resizeIn.service.size]
  IN sent.vCPU < current.vCPU \/ sent.ramGB < current.ramGB

\* the provider of the service supports downgrades
DowngradeSupported ==
  toLowerCase(resizeIn.service.provider) \in DOWNGRADE_SUPPORTED_PROVIDERS

\* C23 as stated: resizeServer never sends the changeType action for a size
\* with fewer CPUs or less RAM than the service has when the provider of
\* the service is not one of netcup, aws, azure, scaleway.
C23_NoUnsupportedDowngrade ==
  ChangeTypeSent => ~(SentDowngrade /\ ~DowngradeSupported)

\* ------------------------------------------------------------------------
\* The delete operations of the library
\* ------------------------------------------------------------------------

DeleteOps ==
  {"deleteProject", "deleteService", "deletePipeline", "deleteServiceVolume",
   "deleteSnapshot"}

\* what a caller passes for force: nothing, false, true, the string
\* 'false' of a command line "--force false"
ForceValues == {Undefined, "false", "true", "'false'"}

\* the values JavaScript takes for true in !force
truthy(v) == v \in {"true", "'false'"}

\* the force argument of the operation as the operation reads it:
\* deleteServiceVolume and deleteSnapshot have no such parameter
forceRead(call) ==
  IF call.op \in {"deleteProject", "deleteService", "deletePipeline"}
  THEN call.force ELSE Undefined

\* the operation checks force before anything else
checksForce(op) == op \in {"deleteProject", "deleteService", "deletePipeline"}

\* a call: the operation, the id of what is deleted, the force value
\* passed, the project passed and the default project of the configuration
DelCalls ==
  [op : DeleteOps, id : {Undefined, "7"}, force : ForceValues,
   project : {Undefined, "p1"}, defaultProject : {Undefined, "p0"}]

\* the endpoint and action of the delete request of an operation
deleteRequest(op) ==
  IF op = "deleteProject" THEN "/api/projects/deleteProject"
  ELSE IF op = "deleteService" THEN "/api/servers/deleteServer"
  ELSE IF op = "deletePipeline" THEN "/api/cicd/doActionOnPipeline:deletePipeline"
  ELSE IF op = "deleteServiceVolume" THEN "/api/servers/DoActionOnServer:deleteServiceVolume"
  ELSE "/api/servers/DoActionOnServer:deleteSnapshot"

\* what the operation raises before it sends anything, Null when it sends
\* its request
deleteRefused(call) ==
  IF checksForce(call.op) /\ ~truthy(forceRead(call)) THEN "ForceRequired"
  ELSE IF /\ call.op \in {"deleteService", "deletePipeline"}
          /\ falsy(Or(call.project, call.defaultProject))
  THEN "ProjectRequired"
  ELSE IF call.op = "deleteSnapshot" /\ falsy(call.id) THEN "SnapshotRequired"
  ELSE Null

\* what the API answers to the delete request
DeleteAnswers ==
  [raised : {FALSE}, status : {"OK", "KO", "error"}, action : {Undefined, "delete"}]
  \cup {[raised |-> TRUE, status |-> Undefined, action |-> Undefined]}

\* whether the operation raises on the answer
deleteFailed(op, answer) ==
  IF answer.raised THEN TRUE
  ELSE IF op = "deleteProject" THEN answer.status # "OK"
  ELSE IF op \in {"deleteService", "deletePipeline"}
  THEN answer.status # "OK" /\ falsy(answer.action)
  ELSE answer.status \in {"KO", "error"}

InitDelete ==
  /\ delCall \in DelCalls
  /\ delReqs = <<>>
  /\ delRes = [outcome |-> "start", error |-> Null]
  /\ ApiOff
  /\ RepoOff
  /\ AuthOff
  /\ AutoOff
  /\ SshOff /\ ResizeOff /\ CfgOff /\ FwOff /\ WaitOff

DeleteFrame ==
  UNCHANGED <<delCall, apiVars, repoVars, authVars, autoVars, sshVars,
              resizeVars, cfgVars, fwVars, waitVars>>

\* the operation up to its await: its checks, then its delete request
DeleteCall ==
  /\ delRes.outcome = "start"
  /\ IF deleteRefused(delCall) # Null
     THEN /\ delRes' = [outcome |-> "throw", error |-> deleteRefused(delCall)]
          /\ UNCHANGED delReqs
     ELSE /\ delRes' = [outcome |-> "sent", error |-> Null]
          /\ delReqs' = Append(delReqs, deleteRequest(delCall.op))
  /\ DeleteFrame

\* the request is answered or raises
DeleteAnswered ==
  /\ delRes.outcome = "sent"
  /\ \E answer \in DeleteAnswers :
       delRes' = IF deleteFailed(delCall.op, answer)
                 THEN [outcome |-> "throw", error |-> "Remote"]
                 ELSE [outcome |-> "return", error |-> Null]
  /\ UNCHANGED delReqs
  /\ DeleteFrame

NextDelete == DeleteCall \/ DeleteAnswered

SpecDelete == InitDelete /\ [][NextDelete]_vars

\* C24 as stated: no delete operation sends its delete request unless the
\* caller passed the force confirmation; without it the operation raises
\* and sends nothing.
C24_NoDeleteWithoutForce ==
  ~truthy(delCall.force) =>
    /\ delReqs = <<>>
    /\ delRes.outcome \in {"start", "throw"}

\* ------------------------------------------------------------------------
\* config.json and .env: loadConfig, saveConfig and the operations that
\* save the configuration
\* ------------------------------------------------------------------------

\* DEFAULT_CONFIG with all its fields
DEFAULT_CONFIG_FILE ==
  [jwt |-> Null, jwtExpiry |-> 0, defaultProject |-> Null,
   defaults |-> [provider |-> "netcup", datacenter |-> "nbg",
                 serverType |-> "MEDIUM-2C-4G", support |-> "level1"]]

\* config.json when there is no file
NoConfigFile == [k \in {} |-> Null]

\* loadConfig: the defaults, over them the fields of config.json, over
\* them the credentials of .env
loadConfig(file, env) ==
  [email |-> env.email, apiToken |-> env.apiToken] @@ file @@ DEFAULT_CONFIG_FILE

\* a mutation of saveConfig: the whole configuration is written
saveConfigWhole(cfg) == cfg

\* saveConfig: const { email, apiToken, ...safeConfig } = config
saveConfig(cfg) == [k \in DOMAIN cfg \ {"email", "apiToken"} |-> cfg[k]]

\* the configuration with some fields set
withFields(cfg, fields) == fields @@ cfg

\* what an operation leaves: config.json, .env, what saveConfig wrote and
\* what loadConfig returned during it, in order, and how it ended
CfgDone(file, env, writes, loads, raised) ==
  [file |-> file, env |-> env, writes |-> writes, loads |-> loads,
   raised |-> raised]

\* getJwt on the files
getJwtFiles(file, env, t, authResp) ==
  LET cfg == loadConfig(file, env)
      auth == authenticate(authResp, t)
      fresh == withFields(cfg, [jwt |-> auth.jwt, jwtExpiry |-> auth.jwtExpiry])
  IN IF cfg.email = Null \/ cfg.apiToken = Null
     THEN [done |-> CfgDone(file, env, <<>>, <<cfg>>, TRUE), jwt |-> Null]
     ELSE IF ~isJwtExpired(cfg, t)
     THEN [done |-> CfgDone(file, env, <<>>, <<cfg>>, FALSE), jwt |-> cfg.jwt]
     ELSE IF auth.raised
     THEN [done |-> CfgDone(file, env, <<>>, <<cfg>>, TRUE), jwt |-> Null]
     ELSE [done |-> CfgDone(saveConfig(fresh), env, <<saveConfig(fresh)>>, <<cfg>>, FALSE),
           jwt |-> auth.jwt]

\* apiRequest on the files: srv[1] answers the first attempt and srv[2] the
\* retry
RECURSIVE apiRequestFiles(_, _, _, _, _)
apiRequestFiles(file, env, t, srv, retried) ==
  LET att == srv[IF retried THEN 2 ELSE 1]
      j == getJwtFiles(file, env, t, att.auth)
      todo == handleResponse(att.resp, retried)
      cfg == loadConfig(j.done.file, env)
      cleared == saveConfig(withFields(cfg, [jwt |-> Null, jwtExpiry |-> 0]))
      again == apiRequestFiles(cleared, env, t, srv, TRUE)
  IN IF j.done.raised THEN j.done
     ELSE IF todo = "retry"
     THEN CfgDone(again.file, env, j.done.writes \o <<cleared>> \o again.writes,
                  j.done.loads \o <<cfg>> \o again.loads, again.raised)
     ELSE CfgDone(j.done.file, env, j.done.writes, j.done.loads, todo = "throw")

\* configure(email, token)
configure(file, env, t, email, token, authResp) ==
  LET auth == authenticate(authResp, t)
      saved == [email |-> email, apiToken |-> token]
      cfg == loadConfig(file, saved)
      fresh == withFields(cfg, [jwt |-> auth.jwt, jwtExpiry |-> auth.jwtExpiry])
  IN IF falsy(email) \/ falsy(token) \/ auth.raised
     THEN CfgDone(file, env, <<>>, <<>>, TRUE)
     ELSE CfgDone(saveConfig(fresh), saved, <<saveConfig(fresh)>>, <<cfg>>, FALSE)

\* setDefaultProject(projectId)
setDefaultProject(file, env, projectId) ==
  LET cfg == loadConfig(file, env)
      set == withFields(cfg, [defaultProject |-> projectId])
  IN CfgDone(saveConfig(set), env, <<saveConfig(set)>>, <<cfg>>, FALSE)

\* setDefaults(provider, ...): only the values given are set
setDefaults(file, env, provider, support) ==
  LET cfg == loadConfig(file, env)
      set == withFields(cfg,
               [defaults |-> [cfg.defaults EXCEPT
                                !.provider = Or(provider, @),
                                !.support = Or(support, @)]])
  IN CfgDone(saveConfig(set), env, <<saveConfig(set)>>, <<cfg>>, FALSE)

\* the credentials tried
CfgEmails == {"user@example.com", "other@example.com"}
CfgTokens == {"token", "token2"}

\* .env before the first operation
InitEnvFiles ==
  { [email |-> Null, apiToken |-> Null],
    [email |-> "user@example.com", apiToken |-> "token"] }

\* config.json before the first operation: no file, a file saved by an
\* earlier run, a file into which the credentials were written by hand
InitConfigFiles ==
  { NoConfigFile,
    saveConfig(loadConfig(NoConfigFile, [email |-> Null, apiToken |-> Null])),
    [jwt |-> "jwtA", jwtExpiry |-> JwtLifetimeMs, email |-> "user@example.com",
     apiToken |-> "token"] }

\* the answers of the server tried in the operations on the files
CfgAuthResponses ==
  {a \in AuthResponses : a.jwt # "jwtB" /\ (a.status = "OK" => a.jwt # Null)}

CfgResponses ==
  {r \in Responses :
     /\ r.json => r.body.message \in {MsgNone, MsgAuthFailed} /\ r.body.code = Null
     /\ r.status = 401 => ~r.json}

CfgAttempts == [auth : CfgAuthResponses, resp : CfgResponses]

InitConfig ==
  /\ configFile \in InitConfigFiles
  /\ envFile \in InitEnvFiles
  /\ cfgWrites = <<>>
  /\ cfgLoads = <<>>
  /\ ApiOff
  /\ RepoOff
  /\ AuthOff
  /\ AutoOff
  /\ SshOff /\ ResizeOff /\ DelOff /\ FwOff /\ WaitOff

ConfigFrame ==
  UNCHANGED <<config, creds, apiRes, repoVars, authVars, autoVars, sshVars,
              resizeVars, delVars, fwVars, waitVars>>

\* an operation has run to its end
CfgApply(done) ==
  /\ configFile' = done.file
  /\ envFile' = done.env
  /\ cfgWrites' = done.writes
  /\ cfgLoads' = done.loads

CfgConfigure ==
  /\ \E email \in CfgEmails \cup {Undefined}, token \in CfgTokens,
        authResp \in CfgAuthResponses :
       CfgApply(configure(configFile, envFile, now, email, token, authResp))
  /\ UNCHANGED now
  /\ ConfigFrame

CfgGetJwt ==
  /\ \E authResp \in CfgAuthResponses :
       CfgApply(getJwtFiles(configFile, envFile, now, authResp).done)
  /\ UNCHANGED now
  /\ ConfigFrame

CfgApiRequest ==
  /\ \E a1 \in CfgAttempts, a2 \in CfgAttempts :
       CfgApply(apiRequestFiles(configFile, envFile, now, <<a1, a2>>, FALSE))
  /\ UNCHANGED now
  /\ ConfigFrame

CfgSetDefaultProject ==
  /\ \E projectId \in {"p1", "p2"} :
       CfgApply(setDefaultProject(configFile, envFile, projectId))
  /\ UNCHANGED now
  /\ ConfigFrame

CfgSetDefaults ==
  /\ \E provider \in {Undefined, "hetzner"}, support \in {Undefined, "level2"} :
       CfgApply(setDefaults(configFile, envFile, provider, support))
  /\ UNCHANGED now
  /\ ConfigFrame

\* time passes between operations
CfgTick ==
  /\ now < MaxTicks * TickMs
  /\ now' = now + TickMs
  /\ UNCHANGED cfgVars
  /\ ConfigFrame

NextConfig ==
  \/ CfgConfigure
  \/ CfgGetJwt
  \/ CfgApiRequest
  \/ CfgSetDefaultProject
  \/ CfgSetDefaults
  \/ CfgTick

SpecConfig == InitConfig /\ [][NextConfig]_vars

\* C25: whatever operations have run, no content that saveConfig writes to
\* config.json has an email or an apiToken field, and once written the
\* file has none, while every result of loadConfig has both, with the
\* values of .env.
C25_CredentialsNeverSaved ==
  /\ \A i \in DOMAIN cfgWrites :
       "email" \notin DOMAIN cfgWrites[i] /\ "apiToken" \notin DOMAIN cfgWrites[i]
  /\ cfgWrites # <<>> =>
       /\ configFile = cfgWrites[Len(cfgWrites)]
       /\ DOMAIN configFile \cap {"email", "apiToken"} = {}
  /\ \A i \in DOMAIN cfgLoads :
       /\ {"email", "apiToken"} \subseteq DOMAIN cfgLoads[i]
       /\ cfgLoads[i].email = envFile.email
       /\ cfgLoads[i].apiToken = envFile.apiToken

\* a request whose JWT is rejected has loaded the configuration with the
\* credentials three times and saved it twice, clearing the JWT and
\* storing the new one
C25_Witness ==
  /\ Len(cfgWrites) = 2
  /\ Len(cfgLoads) = 3
  /\ cfgLoads[1].apiToken = "token"
  /\ cfgWrites[1].jwt = Null
  /\ cfgWrites[2].jwt = "jwtA"

\* ------------------------------------------------------------------------
\* The firewall operations (lib/actions.js): mergeFirewallRules,
\* enableFirewall, updateFirewall
\* ------------------------------------------------------------------------

\* the longest list of rules, given or existing
MaxRules == 2

\* the rules tried: two ports, two sets of targets
FirewallRules ==
  [type : {"INPUT"}, port : {"22", "80"}, protocol : {"tcp"},
   targets : {"0.0.0.0/0", "10.0.0.0/8"}]

RuleLists ==
  UNION { [1..n -> FirewallRules] : n \in 0..MaxRules }

\* `${rule.type}|${rule.port}|${rule.protocol}`
ruleKey(rule) == rule.type \o "|" \o rule.port \o "|" \o rule.protocol

\* Map.prototype.set on a map kept as the list of its values in insertion
\* order: the value of a key that is there is replaced in place, a new key
\* is added at the end
mapSet(map, rule) ==
  IF \E i \in DOMAIN map : ruleKey(map[i]) = ruleKey(rule)
  THEN [i \in DOMAIN map |-> IF ruleKey(map[i]) = ruleKey(rule) THEN rule ELSE map[i]]
  ELSE Append(map, rule)

\* for (const rule of rules) ruleMap.set(key, rule)
RECURSIVE mapSetAll(_, _)
mapSetAll(map, rules) ==
  IF rules = <<>> THEN map
  ELSE mapSetAll(mapSet(map, Head(rules)), Tail(rules))

\* mergeFirewallRules once the existing rules are looked up
mergeFirewallRules(existingRules, newRules) ==
  IF Len(existingRules) = 0 THEN newRules
  ELSE mapSetAll(mapSetAll(<<>>, existingRules), newRules)

\* what doAction gives for getFirewallRules: an error raised (also for an
\* answer with status KO or error), or an answer with the rules
LookupAnswers ==
  [raised : {FALSE}, rules : RuleLists] \cup {[raised |-> TRUE, rules |-> <<>>]}

\* let existingRules = []; try { ... } catch (e) {}
existingOf(lookup) == IF lookup.raised THEN <<>> ELSE lookup.rules

\* a mutation of firewallActive: the firewall is taken not to be active
firewallActiveNever(existingRules) == FALSE

\* existingRules.length > 0
firewallActive(existingRules) == Len(existingRules) > 0

FwReq(action, rules) == [action |-> action, rules |-> rules]

FwEnd(outcome, enableFailed) == [outcome |-> outcome, enableFailed |-> enableFailed]

InitFirewall ==
  /\ fwPc = "start"
  /\ fwIn \in [op : {"enableFirewall", "updateFirewall"}, given : BOOLEAN,
               rules : RuleLists]
  /\ fwIn.given \/ fwIn.rules = <<>>
  /\ fwSeen = <<>>
  /\ fwReqs = <<>>
  /\ fwRes = FwEnd(Null, FALSE)
  /\ ApiOff
  /\ RepoOff
  /\ AuthOff
  /\ AutoOff
  /\ SshOff /\ ResizeOff /\ DelOff /\ CfgOff /\ WaitOff

FirewallFrame ==
  UNCHANGED <<fwIn, apiVars, repoVars, authVars, autoVars, sshVars, resizeVars,
              delVars, cfgVars, waitVars>>

\* enableFirewall(vmID, rules) or updateFirewall(vmID, rules) up to the
\* first await: without an array of rules it raises; enableFirewall looks
\* the existing rules up, updateFirewall calls mergeFirewallRules, which
\* looks them up
FwCall ==
  /\ fwPc = "start"
  /\ IF ~fwIn.given
     THEN /\ fwPc' = "done"
          /\ fwRes' = FwEnd("throw", FALSE)
     ELSE /\ fwPc' = IF fwIn.op = "enableFirewall" THEN "check" ELSE "merge"
          /\ UNCHANGED fwRes
  /\ UNCHANGED <<fwSeen, fwReqs>>
  /\ FirewallFrame

\* the lookup of enableFirewall is answered: with rules there it calls
\* mergeFirewallRules, without it sends the enableFirewall action
FwChecked ==
  /\ fwPc = "check"
  /\ \E lookup \in LookupAnswers :
       /\ fwSeen' = Append(fwSeen, lookup)
       /\ IF firewallActive(existingOf(lookup))
          THEN /\ fwPc' = "merge"
               /\ UNCHANGED fwReqs
          ELSE /\ fwPc' = "enable"
               /\ fwReqs' = Append(fwReqs, FwReq("enableFirewall", fwIn.rules))
  /\ UNCHANGED fwRes
  /\ FirewallFrame

\* the lookup of mergeFirewallRules is answered: the merged rules are sent
\* with the updateFirewall action
FwMerged ==
  /\ fwPc = "merge"
  /\ \E lookup \in LookupAnswers :
       /\ fwSeen' = Append(fwSeen, lookup)
       /\ fwReqs' = Append(fwReqs,
            FwReq("updateFirewall", mergeFirewallRules(existingOf(lookup), fwIn.rules)))
  /\ fwPc' = "update"
  /\ UNCHANGED fwRes
  /\ FirewallFrame

\* the enableFirewall action is answered: when it raises, the
\* updateFirewall action is sent with the rules given
FwEnabled ==
  /\ fwPc = "enable"
  /\ \E raised \in BOOLEAN :
       IF raised
       THEN /\ fwPc' = "update"
            /\ fwReqs' = Append(fwReqs, FwReq("updateFirewall", fwIn.rules))
            /\ fwRes' = FwEnd(Null, TRUE)
       ELSE /\ fwPc' = "done"
            /\ fwRes' = FwEnd("return", FALSE)
            /\ UNCHANGED fwReqs
  /\ UNCHANGED fwSeen
  /\ FirewallFrame

\* the updateFirewall action is answered or raises
FwUpdated ==
  /\ fwPc = "update"
  /\ \E raised \in BOOLEAN :
       fwRes' = [fwRes EXCEPT !.outcome = IF raised THEN "throw" ELSE "return"]
  /\ fwPc' = "done"
  /\ UNCHANGED <<fwSeen, fwReqs>>
  /\ FirewallFrame

NextFirewall == FwCall \/ FwChecked \/ FwMerged \/ FwEnabled \/ FwUpdated

SpecFirewall == InitFirewall /\ [][NextFirewall]_vars

\* mergeFirewallRules has returned: the rules it found and what it
\* returned
MergeDone == fwPc \in {"update", "done"} /\ Len(fwSeen) >= 1 /\ ~fwRes.enableFailed
             /\ fwReqs # <<>> /\ fwReqs[1].action = "updateFirewall"

MergeExisting == existingOf(fwSeen[Len(fwSeen)])

MergeResult == fwReqs[1].rules

InList(rule, rules) == \E i \in DOMAIN rules : rules[i] = rule

KeyIn(rule, rules) == \E i \in DOMAIN rules : ruleKey(rules[i]) = ruleKey(rule)

\* C26 as stated: what mergeFirewallRules returns has at most one rule for
\* a key, holds every new rule, holds every existing rule whose key no new
\* rule has, holds no existing rule whose key a new rule has unless it is
\* a new rule, and is left unchanged by merging the same new rules into it
\* again.
C26_MergeReplacesByKey ==
  MergeDone =>
    /\ \A i, j \in DOMAIN MergeResult :
         ruleKey(MergeResult[i]) = ruleKey(MergeResult[j]) => i = j
    /\ \A i \in DOMAIN fwIn.rules : InList(fwIn.rules[i], MergeResult)
    /\ \A i \in DOMAIN MergeExisting :
         IF KeyIn(MergeExisting[i], fwIn.rules)
         THEN InList(MergeExisting[i], MergeResult) => InList(MergeExisting[i], fwIn.rules)
         ELSE InList(MergeExisting[i], MergeResult)
    /\ mergeFirewallRules(MergeResult, fwIn.rules) = MergeResult

\* the actions sent, lookups apart
SentActions == [i \in DOMAIN fwReqs |-> fwReqs[i].action]

createResponse(body, psid) ==
  [raised |-> FALSE, status |-> body.status, providerServerID |-> psid,
   message |-> IF body.message = MsgNone THEN Undefined ELSE "message"]

\* autoCreatePipeline has built the payload and is about to await
\* apiRequest('/api/servers/createCiCdExistServer', 'POST', payload); the
\* run ends at the answer (docker mode, or options.deploy false)
InitSubmit ==
  /\ config \in InitConfigs
  /\ creds \in {c \in CredsSet : c.email # Null /\ c.apiToken # Null}
  /\ now = 0
  /\ apiRes = ApiIdle
  /\ LibOff
  /\ RepoOff
  /\ AuthOff
  /\ autoPc = "create"
  /\ \E mode \in {"docker", "fullstack"} :
       options = optionsOf("p1", "vm1", "app", mode, <<"a", "/", "b">>, "7",
                           mode = "docker", NoOverrides)
  /\ defaultProject = Undefined
  /\ reqLog = <<"getCICDServices", "getGitOrgs", "getRepoByOrg",
                "createCiCdExistServer">>
  /\ target = [displayName |-> "s1", id |-> "s1", serverName |-> "", vmID |-> "vm1"]
  /\ authID = "7"
  /\ found = "uncalled"
  /\ repoData = [id |-> 1, private |-> FALSE]
  /\ payload = buildPayload(options, pidOf(options, defaultProject), authID,
                            repoData, target)
  /\ postDeploy = Null
  /\ events = <<>>
  /\ retries = 0
  /\ lastProbe = Null
  /\ autoRes = AutoRunning

\* autoCreatePipeline reads what apiRequest returned or raised
SubmitAnswered ==
  /\ autoPc = "create"
  /\ apiRes.called
  /\ IF apiRes.outcome = "throw"
     THEN AutoRaise("Remote") /\ UNCHANGED events
     ELSE \E psid \in {Undefined, "vm9"} :
            LET response == createResponse(apiRes.body, psid)
            IN IF createRejected(response)
               THEN /\ autoPc' = "done"
                    /\ autoRes' = [outcome |-> "throw",
                                   error |-> rejectionMessage(response),
                                   response |-> response]
                    /\ UNCHANGED events
               ELSE /\ ~runsPostDeploy(options)
                    /\ events' = <<"success:created">>
                    /\ autoPc' = "done"
                    /\ autoRes' = [outcome |-> "return", error |-> Null,
                                   response |-> response]
  /\ UNCHANGED <<options, defaultProject, target, authID, found, repoData,
                 payload, postDeploy, retries, lastProbe, reqLog,
                 apiVars, repoVars, authVars, libVars>>

NextSubmit == ApiRequest \/ Tick \/ SubmitAnswered

SpecSubmit == InitSubmit /\ [][NextSubmit]_vars

\* the number of times the creation request went to the gateway
Transmissions == Len(apiRes.sent)

\* the gateway's answer to the first transmission is one of those
\* apiRequest takes as a rejected JWT: HTTP 401, or a JSON body whose
\* message names auth on an error, or that names an invalid token
FirstAnswerRejectsJwt ==
  LET resp == apiRes.srv[1].resp
  IN /\ resp.net
     /\ \/ resp.status = 401
        \/ /\ resp.json
           /\ \/ resp.body.status = "error"
                 /\ resp.body.message \in {MsgAuthFailed, MsgAuthUpper}
              \/ resp.body.code = "InvalidToken"
              \/ resp.body.message = MsgInvalidToken

\* the index of the last "clearJwt" of a trace, 0 when there is none
lastClear(trace) ==
  LET S == {i \in 1..Len(trace) : trace[i] = "clearJwt"}
  IN IF S = {} THEN 0 ELSE CHOOSE i \in S : \A j \in S : j <= i

PostDeployOff == ~options.deploy \/ modeOf(options) = "docker"

\* C29: in docker mode, or with deploy set to false, no post-deploy step
\* runs: no service details are requested, no SSH key is generated, read or
\* registered, no SSH command runs and no remote file is written, and once
\* the creation response is accepted the run has ended by returning that
\* response, the creation request being the last request it sent.
C29_NoPostDeployWhenOff ==
  PostDeployOff =>
    /\ ~Requested("getServerDetails")
    /\ ~Requested("DoActionOnServer")
    /\ \A i \in DOMAIN events :
         events[i] \notin EnsureEvents \cup WaitEvents \cup RemoteSteps
    /\ postDeploy = Null
    /\ retries = 0
    /\ Accepted =>
         /\ autoPc = "done"
         /\ autoRes.outcome = "return"
         /\ autoRes.error = Null
         /\ events = <<"success:created">>
         /\ reqLog[Len(reqLog)] = "createCiCdExistServer"

\* a creation accepted in a git mode with deploy set to false
C29_Witness ==
  /\ ~options.deploy
  /\ modeOf(options) # "docker"
  /\ Accepted
  /\ autoPc = "done"
  /\ autoRes.outcome = "return"

\* ------------------------------------------------------------------------
\* waitForDeployment
\* ------------------------------------------------------------------------

\* await sleep(10000) when the service is not in the list
SleepAbsentMs == 10000

\* await sleep(15000) when the service is not deployed and running yet
SleepPendingMs == 15000

\* timeoutMs = 600000
DefaultTimeoutMs == 600000

\* the values of an id, as <<type, text>>: a number and a string of the
\* same digits are different values with the same text
NumId(text) == <<"number", text>>
StrId(text) == <<"string", text>>
UndefinedId == <<"undefined", "undefined">>

\* String(v) of an id: its text
idText(v) == v[2]

\* the services a poll can list
WaitServices ==
  [vmID : {NumId("9"), StrId("8")},
   providerServerID : {StrId("9"), UndefinedId},
   deploymentStatus : {"Deployed", "In progress"},
   status : {"running", "stopped"}]

\* what listServicesRaw returns: a list of services
WaitServiceLists ==
  {<<>>} \cup {<<s>> : s \in WaitServices}
         \cup {<<s, t>> : s \in {u \in WaitServices : u.status = "stopped"
                                                     /\ u.providerServerID = UndefinedId},
                          t \in WaitServices}

\* nothing found by services.find
NoService ==
  [vmID |-> UndefinedId, providerServerID |-> UndefinedId,
   deploymentStatus |-> "", status |-> ""]

\* services.find(s => String(s.vmID) === String(vmID) ||
\*                    String(s.providerServerID) === String(vmID))
findService(services, vmID) ==
  LET hits == {i \in DOMAIN services :
                 \/ idText(services[i].vmID) = idText(vmID)
                 \/ idText(services[i].providerServerID) = idText(vmID)}
  IN IF hits = {} THEN NoService
     ELSE services[CHOOSE i \in hits : \A j \in hits : i <= j]

\* a mutation of deployedAndRunning: svc.status is not read
deployedOnly(svc) == svc.deploymentStatus = "Deployed"

\* svc.deploymentStatus === 'Deployed' && svc.status === 'running'
deployedAndRunning(svc) ==
  svc.deploymentStatus = "Deployed" /\ svc.status = "running"

\* the timeout in force: the default when none is given
timeoutOf(input) ==
  IF input.timeoutMs = Undefined THEN DefaultTimeoutMs ELSE input.timeoutMs[1]

\* projectId || config.defaultProject of listServicesRaw
waitPid(input) == Or(input.projectId, input.defaultProject)

\* the calls of waitForDeployment: the timeout is absent or a number,
\* written <<n>>
WaitCalls ==
  [vmID : {StrId("9"), UndefinedId}, projectId : {Undefined, "p1"},
   defaultProject : {Undefined, "p0"},
   timeoutMs : {Undefined, <<0>>, <<25000>>}]

\* what is known of the polls: lastStatus, whether the last one raised and
\* what it found
NoPolls == [lastStatus |-> "", raised |-> FALSE, seen |-> NoService]

\* waitForDeployment is running
WaitRunning == [outcome |-> "running", svc |-> NoService, error |-> Null]

InitWait ==
  /\ waitPc = "loop"
  /\ waitIn \in WaitCalls
  /\ elapsed = 0
  /\ polls = NoPolls
  /\ waitRes = WaitRunning
  /\ ApiOff
  /\ RepoOff
  /\ AuthOff
  /\ AutoOff
  /\ SshOff /\ ResizeOff /\ DelOff /\ CfgOff /\ FwOff

WaitFrame ==
  UNCHANGED <<waitIn, apiVars, repoVars, authVars, autoVars, sshVars,
              resizeVars, delVars, cfgVars, fwVars>>

\* the loop test holds and listServicesRaw is called
Polling == waitPc = "loop" /\ elapsed < timeoutOf(waitIn)

\* listServicesRaw raises: no project id, or apiRequest raises
WaitPollRaised ==
  /\ Polling
  /\ \E error \in {"Project ID required", "Remote"} :
       /\ error = "Project ID required" <=> falsy(waitPid(waitIn))
       /\ waitRes' = [outcome |-> "throw", svc |-> NoService, error |-> error]
  /\ polls' = [polls EXCEPT !.raised = TRUE, !.seen = NoService]
  /\ waitPc' = "done"
  /\ UNCHANGED elapsed
  /\ WaitFrame

\* the service is not in the list: sleep and test again
WaitPollAbsent ==
  /\ Polling
  /\ ~falsy(waitPid(waitIn))
  /\ \E services \in WaitServiceLists :
       /\ findService(services, waitIn.vmID) = NoService
       /\ polls' = [polls EXCEPT !.seen = NoService]
  /\ elapsed' = elapsed + SleepAbsentMs
  /\ UNCHANGED <<waitPc, waitRes>>
  /\ WaitFrame

\* the service is in the list and not deployed and running: sleep and
\* test again
WaitPollPending ==
  /\ Polling
  /\ ~falsy(waitPid(waitIn))
  /\ \E services \in WaitServiceLists :
       LET svc == findService(services, waitIn.vmID)
       IN /\ svc # NoService
          /\ ~deployedAndRunning(svc)
          /\ polls' = [polls EXCEPT !.seen = svc,
                                    !.lastStatus = svc.deploymentStatus]
  /\ elapsed' = elapsed + SleepPendingMs
  /\ UNCHANGED <<waitPc, waitRes>>
  /\ WaitFrame

\* the service is in the list, deployed and running: it is returned
WaitPollDeployed ==
  /\ Polling
  /\ ~falsy(waitPid(waitIn))
  /\ \E services \in WaitServiceLists :
       LET svc == findService(services, waitIn.vmID)
       IN /\ svc # NoService
          /\ deployedAndRunning(svc)
          /\ polls' = [polls EXCEPT !.seen = svc,
                                    !.lastStatus = svc.deploymentStatus]
          /\ waitRes' = [outcome |-> "return", svc |-> svc, error |-> Null]
  /\ waitPc' = "done"
  /\ UNCHANGED elapsed
  /\ WaitFrame

\* the loop test fails: the timeout error is raised
WaitTimedOut ==
  /\ waitPc = "loop"
  /\ ~(elapsed < timeoutOf(waitIn))
  /\ waitRes' = [outcome |-> "throw", svc |-> NoService,
                 error |-> "Deployment timed out"]
  /\ waitPc' = "done"
  /\ UNCHANGED <<elapsed, polls>>
  /\ WaitFrame

NextWait ==
  \/ WaitPollRaised
  \/ WaitPollAbsent
  \/ WaitPollPending
  \/ WaitPollDeployed
  \/ WaitTimedOut

SpecWait == InitWait /\ [][NextWait]_vars

\* a poll that is awaited is answered or raises, and a sleep ends
SpecWaitFair == SpecWait /\ WF_vars(NextWait)

\* waitForDeployment has returned a service that its last poll found
\* deployed and running
ReturnedDeployed ==
  /\ waitRes.outcome = "return"
  /\ waitRes.svc = polls.seen
  /\ waitRes.svc # NoService
  /\ waitRes.svc.deploymentStatus = "Deployed"
  /\ waitRes.svc.status = "running"

\* waitForDeployment has raised the timeout error, the timeout being over
RaisedTimeout ==
  /\ waitRes.outcome = "throw"
  /\ waitRes.error = "Deployment timed out"
  /\ elapsed >= timeoutOf(waitIn)
  /\ ~polls.raised

\* waitForDeployment has raised what its last poll raised
RaisedByPoll ==
  /\ waitRes.outcome = "throw"
  /\ waitRes.error # "Deployment timed out"
  /\ polls.raised

\* C30 as stated: waitForDeployment ends, and it ends either by returning
\* a service that a poll found deployed and running or by raising the
\* timeout error once the timeout is over.
C30_ReturnsDeployedOrTimesOut ==
  /\ <>(waitPc = "done")
  /\ [](waitPc = "done" => ReturnedDeployed \/ RaisedTimeout)

\* C30, amended: waitForDeployment ends, by returning a service that its
\* last poll found deployed and running, by raising the timeout error once
\* the timeout is over, or by raising the error of a poll that raised;
\* while every poll answers without such a service it keeps polling, and
\* it never returns a service that is not deployed and running.
C30_ReturnsDeployedOrRaises ==
  /\ <>(waitPc = "done")
  /\ [](waitPc = "done" => ReturnedDeployed \/ RaisedTimeout \/ RaisedByPoll)
  /\ [](waitPc # "done" => waitRes = WaitRunning /\ ~polls.raised)
  /\ [](waitRes.outcome = "return" => ReturnedDeployed)

\* the timeout error after a last poll that found the service deployed and
\* not running
C30_Witness ==
  /\ RaisedTimeout
  /\ elapsed > SleepPendingMs
  /\ polls.seen # NoService
  /\ polls.seen.deploymentStatus = "Deployed"
  /\ polls.seen.status = "stopped"

====
